---- MODULE Spec2Model ----
(***************************************************************************)
(* A model of package acme (9fans.net/go/acme, Plan 9 port): the window    *)
(* registry (windows/last, Open, drop, Show, AutoExit, DeleteAll), the     *)
(* per-window event delivery task (EventChan, eventReader) and the event   *)
(* codec (ReadEvent, gete, geten, getec, WriteEvent).                      *)
(*                                                                         *)
(* A *Win is a positive number (the n-th Win allocated by Open); 0 is nil. *)
(***************************************************************************)
EXTENDS Integers, Sequences, FiniteSets, TLC

\* ------------------------------------------------------------------ bounds
MaxWins == 3      \* Wins allocated in the registry specification
MaxEvWins == 2    \* Wins allocated in the event delivery specification
MaxEvents == 2    \* events a window's event file yields before it fails
NumProcs == 2     \* goroutines calling the package concurrently
MaxQ == 12        \* largest character address in a host event record
MaxReads == 3     \* ReadEvent calls on one event file
Names == {"+Errors"}   \* the window names given with Win.Name ("" until named)

\* ------------------------------------------------------------------ state
VARIABLES
  windows,   \* var windows *Win: head of the registry list
  last,      \* var last *Win: tail of the registry list
  next,      \* Win.next, per allocated Win
  prev,      \* Win.prev, per allocated Win
  nwin,      \* number of Wins allocated so far by Open
  wname,     \* Win.name, per allocated Win
  autoExit,  \* var autoExit bool
  exited,    \* os.Exit(0) has been called
  lastCtl,   \* per Win, the last command written to its ctl file ("" if none)
  live,      \* history: Wins inserted by Open and not yet removed by dropLocked
  op,        \* history: the last registry operation called, its argument and result
  c,         \* Win.c, per Win: 0 (nil) or the channel, the n-th made for this Win
  nmade,     \* per Win, how many channels EventChan has made for it
  readers,   \* per Win, how many times `go w.eventReader()` has run
  returned,  \* history: per Win, the set of channels EventChan calls have returned
  rpc,       \* per Win, where its eventReader task is
  held,      \* per Win, the Event its task holds between ReadEvent and the send
  closed,    \* per Win, whether close(w.c) has run
  decoded,   \* history: per Win, the events ReadEvent has returned to the task
  received,  \* history: per Win, what the consumer has received (0: the empty Event)
  rlog,      \* history: per Win, the task's steps after ReadEvent failed
  windowsMu, \* var windowsMu sync.Mutex: 0 (unlocked) or the goroutine holding it
  pc,        \* per goroutine, the statement it is at ("idle": in no call)
  loc,       \* per goroutine, the Win its call is working on (w, the loop variable)
  recs,      \* history: the records the host has put in the event file
  fault,     \* history: what is wrong with the event file, if anything
  ebuf,      \* Win.ebuf: the runes of the event file not yet read
  res,       \* what the last ReadEvent returned (e, err); rest: the runes it
             \* left; nrec: the number of records it read
  start,     \* history: index in recs of the first record the last ReadEvent read
  nreads,    \* number of ReadEvent calls made
  wev,       \* the Event last passed to WriteEvent
  wbuf,      \* the bytes WriteEvent wrote to the event file
  phase,     \* "host": ebuf is the host's records; "written": WriteEvent has
             \* run; "looped": ebuf holds the bytes WriteEvent wrote
  hmeth,     \* the methods Exec<verb> of the EventHandler h, with their types
  laddr,     \* the window's address, as the addr file holds it: <<q0, q1>>
  lev,       \* the Event EventLoop last took from the channel
  ltext,     \* e.Text when the handler was called
  calls,     \* the handler methods EventLoop called for lev, in order
  lret,      \* what Execute or Look returned for lev
  errs,      \* the messages given to w.Err for lev
  lwrote,    \* what was written to the event file for lev
  lpc,       \* where EventLoop is: "none", "range", "body", "returned"
  lwin,      \* the Win EventLoop was called on, 0 before the call
  lseen,     \* the Events the switch has been through: <<number, C2>> each
  bpc,       \* where the goroutine of Blink is ("none": Blink not called)
  dirty,     \* its variable dirty
  tpend,     \* a tick waits in t.C, the ticker's channel of capacity one
  nticks,    \* number of ticks the ticker has sent
  spc,       \* where the caller of stop is ("idle": in no call)
  sflight,   \* history: a tick's ctl write was due when stop was called
  stopped,   \* history: a call of stop has returned
  bwrites,   \* history: the ctl writes of the goroutine of Blink, in order
  stext,     \* the text of the window's address range
  sq,        \* the address range, as the addr file gives it: <<q0, q1>>
  sless,     \* the comparison function given to Sort
  sdata,     \* history: the text of the range when Sort was last called
  sret,      \* what the last Sort call returned ("": no call yet)
  swrites,   \* history: the file writes of the last Sort call, in order
  sfail,     \* history: the files a write of the last Sort call failed on
  fh,        \* the file fields of one Win: name -> handle, 0 for nil
  febuf,     \* the handle w.ebuf reads from, 0 for nil
  fgen,      \* number of handles opened for the Win so far
  fcount,    \* history: name -> opens that succeeded since the files were last closed
  fclosed,   \* history: number of CloseFiles calls
  fret,      \* history: the last call, what it returned and what it opened
  dsure,     \* history: the argument of the last Del call
  dwrites,   \* history: the commands the last Del call wrote to ctl, in order
  derr,      \* history: the last Del call returned an error
  eshow,     \* history: what Show did in the last Err call
  enew,      \* history: the outcomes of the New calls of the last Err call, in order
  efatal,    \* history: the last Err call ended in log.Fatalf
  ewrites    \* history: the writes of the last Err call after it had its window

regVars == <<windows, last, next, prev, nwin, wname, autoExit, exited, lastCtl, live, op>>
evVars == <<c, nmade, readers, returned, rpc, held, closed, decoded, received, rlog>>

concVars == <<windowsMu, pc, loc>>

codecVars == <<recs, fault, ebuf, res, start, nreads, wev, wbuf, phase>>

loopVars == <<hmeth, laddr, lev, ltext, calls, lret, errs, lwrote, lpc, lwin, lseen>>

blinkVars == <<bpc, dirty, tpend, nticks, spc, sflight, stopped, bwrites>>

sortVars == <<stext, sq, sless, sdata, sret, swrites, sfail>>

fidVars == <<fh, febuf, fgen, fcount, fclosed, fret>>

errVars == <<eshow, enew, efatal, ewrites>>

delVars == <<dsure, dwrites, derr>>

appVars == <<loopVars, blinkVars, sortVars, fidVars, errVars, delVars>>

baseVars == <<regVars, evVars, concVars, codecVars, fidVars, errVars, delVars>>

vars == <<regVars, evVars, concVars, codecVars, appVars>>

NoOp == [kind |-> "init", arg |-> 0, res |-> 0]

\* The Wins allocated so far.
Allocated == 1..nwin

\* The Wins reachable from the head by following next (at most nwin links).
RECURSIVE ReachFrom(_, _)
ReachFrom(w, fuel) ==
  IF w = 0 \/ fuel = 0 THEN <<>> ELSE <<w>> \o ReachFrom(next[w], fuel - 1)

RegistryList == ReachFrom(windows, nwin)
Members == {RegistryList[i] : i \in 1..Len(RegistryList)}

\* ------------------------------------------------------------------ registry
RegInit ==
  /\ windows = 0
  /\ last = 0
  /\ next = <<>>
  /\ prev = <<>>
  /\ nwin = 0
  /\ wname = <<>>
  /\ autoExit = FALSE
  /\ exited = FALSE
  /\ lastCtl = <<>>
  /\ live = {}
  /\ op = NoOp

\* func AutoExit(exit bool)
AutoExit(exit) ==
  /\ ~exited
  /\ autoExit' = exit
  /\ op' = [kind |-> "AutoExit", arg |-> exit, res |-> 0]
  /\ UNCHANGED <<windows, last, next, prev, nwin, wname, exited, lastCtl, live>>

\* Open linking the new Win before the head.
OpenLinkAtHead(ok) ==
  /\ ~exited
  /\ IF ok
       THEN LET w == nwin + 1 IN
            /\ nwin' = w
            /\ next' = next @@ (w :> windows)
            /\ prev' = IF windows # 0 THEN [(prev @@ (w :> 0)) EXCEPT ![windows] = w]
                                      ELSE prev @@ (w :> 0)
            /\ windows' = w
            /\ last' = IF last # 0 THEN last ELSE w
            /\ wname' = wname @@ (w :> "")
            /\ lastCtl' = lastCtl @@ (w :> "")
            /\ live' = live \cup {w}
            /\ op' = [kind |-> "Open", arg |-> 0, res |-> w]
       ELSE /\ op' = [kind |-> "Open", arg |-> 0, res |-> 0]
            /\ UNCHANGED <<windows, last, next, prev, nwin, wname, lastCtl, live>>
  /\ UNCHANGED <<autoExit, exited>>

\* The tail of Open (and of New, which ends in Open): allocate w, link it after
\* last. ok = FALSE is the early return with an error (fsysErr, or the ctl file
\* cannot be opened): nothing is allocated.
OpenLink(ok) ==
  /\ ~exited
  /\ IF ok
       THEN LET w == nwin + 1 IN
            /\ nwin' = w
            /\ next' = IF last # 0 THEN [(next @@ (w :> 0)) EXCEPT ![last] = w]
                                   ELSE next @@ (w :> 0)
            /\ prev' = prev @@ (w :> last)
            /\ windows' = IF last # 0 THEN windows ELSE w
            /\ last' = w
            /\ wname' = wname @@ (w :> "")
            /\ lastCtl' = lastCtl @@ (w :> "")
            /\ live' = live \cup {w}
            /\ op' = [kind |-> "Open", arg |-> 0, res |-> w]
       ELSE /\ op' = [kind |-> "Open", arg |-> 0, res |-> 0]
            /\ UNCHANGED <<windows, last, next, prev, nwin, wname, lastCtl, live>>
  /\ UNCHANGED <<autoExit, exited>>

\* dropLocked unlinking w and leaving w.next and w.prev as they were.
UnlinkKeepLinks(w) ==
  /\ next' = IF prev[w] # 0 THEN [next EXCEPT ![prev[w]] = next[w]] ELSE next
  /\ windows' = IF prev[w] # 0 THEN windows ELSE next[w]
  /\ prev' = IF next[w] # 0 THEN [prev EXCEPT ![next[w]] = prev[w]] ELSE prev
  /\ last' = IF next[w] # 0 THEN last ELSE prev[w]
  /\ exited' = (autoExit /\ windows' = 0)

\* func (w *Win) dropLocked() past its early return: unlink w, clear its links,
\* exit when autoExit is set and the list is empty.
Unlink(w) ==
  /\ next' = IF prev[w] # 0 THEN [next EXCEPT ![prev[w]] = next[w], ![w] = 0]
                            ELSE [next EXCEPT ![w] = 0]
  /\ windows' = IF prev[w] # 0 THEN windows ELSE next[w]
  /\ prev' = IF next[w] # 0 THEN [prev EXCEPT ![next[w]] = prev[w], ![w] = 0]
                            ELSE [prev EXCEPT ![w] = 0]
  /\ last' = IF next[w] # 0 THEN last ELSE prev[w]
  /\ exited' = (autoExit /\ windows' = 0)

\* dropLocked without its early return.
DropLockedNoReturn(w) == Unlink(w)

\* dropLocked testing autoExit on the early return too.
DropLockedExitAlways(w) ==
  IF prev[w] = 0 /\ next[w] = 0 /\ windows # w
    THEN /\ exited' = (autoExit /\ windows = 0)
         /\ UNCHANGED <<windows, last, next, prev>>
    ELSE Unlink(w)

\* func (w *Win) dropLocked(): the registry after the call, as the primed
\* variables windows, last, next, prev, exited.
DropLocked(w) ==
  IF prev[w] = 0 /\ next[w] = 0 /\ windows # w
    THEN UNCHANGED <<windows, last, next, prev, exited>>
    ELSE Unlink(w)

\* func (w *Win) drop(), run to completion.
Drop(w) ==
  /\ ~exited
  /\ DropLocked(w)
  /\ live' = live \ {w}
  /\ op' = [kind |-> "drop", arg |-> w, res |-> 0]
  /\ UNCHANGED <<nwin, wname, autoExit, lastCtl>>

\* The first Win on the list whose name is name, 0 if there is none
\* (the loop of Show).
RECURSIVE FirstNamed(_, _, _)
FirstNamed(w, name, fuel) ==
  IF w = 0 \/ fuel = 0 THEN 0
  ELSE IF wname[w] = name THEN w
  ELSE FirstNamed(next[w], name, fuel - 1)

\* Show returning the window whose show write failed.
ShowResultAlways(w, ok) == w

\* Show, the two returns of the loop body: nil after a failed write.
ShowResult(w, ok) == IF ok THEN w ELSE 0

\* func Show(name string) *Win, run to completion; ok is whether the write of
\* "show" to the ctl file of the window found succeeds.
Show(name, ok) ==
  /\ ~exited
  /\ LET w == FirstNamed(windows, name, nwin) IN
     IF w = 0
       THEN /\ op' = [kind |-> "Show", arg |-> name, res |-> 0]
            /\ UNCHANGED <<windows, last, next, prev, exited, lastCtl, live>>
       ELSE IF ok
         THEN /\ lastCtl' = [lastCtl EXCEPT ![w] = "show"]
              /\ op' = [kind |-> "Show", arg |-> name, res |-> ShowResult(w, ok)]
              /\ UNCHANGED <<windows, last, next, prev, exited, live>>
         ELSE /\ DropLocked(w)
              /\ live' = live \ {w}
              /\ op' = [kind |-> "ShowFail", arg |-> w, res |-> ShowResult(w, ok)]
              /\ UNCHANGED lastCtl
  /\ UNCHANGED <<nwin, wname, autoExit>>

\* func (w *Win) Name(format, args...): the cached name changes only when the
\* ctl write succeeds.
Name(w, name, ok) ==
  /\ ~exited
  /\ IF ok
       THEN /\ wname' = [wname EXCEPT ![w] = name]
            /\ lastCtl' = [lastCtl EXCEPT ![w] = "name"]
       ELSE UNCHANGED <<wname, lastCtl>>
  /\ op' = [kind |-> "Name", arg |-> w, res |-> 0]
  /\ UNCHANGED <<windows, last, next, prev, nwin, autoExit, exited, live>>

\* func DeleteAll(), run to completion: "delete" is written to the ctl file of
\* every Win on the list; written is the set of Wins for which the write succeeds.
DeleteAll(written) ==
  /\ ~exited
  /\ written \subseteq Members
  /\ lastCtl' = [w \in DOMAIN lastCtl |-> IF w \in written THEN "delete" ELSE lastCtl[w]]
  /\ op' = [kind |-> "DeleteAll", arg |-> 0, res |-> 0]
  /\ UNCHANGED <<windows, last, next, prev, nwin, wname, autoExit, exited, live>>

\* ------------------------------------------------------------------ event delivery
EvWins == 1..MaxEvWins

\* The fields of a Win not yet allocated are its zero values.
EvInit ==
  /\ c = [w \in EvWins |-> 0]
  /\ nmade = [w \in EvWins |-> 0]
  /\ readers = [w \in EvWins |-> 0]
  /\ returned = [w \in EvWins |-> {}]
  /\ rpc = [w \in EvWins |-> "none"]
  /\ held = [w \in EvWins |-> 0]
  /\ closed = [w \in EvWins |-> FALSE]
  /\ decoded = [w \in EvWins |-> <<>>]
  /\ received = [w \in EvWins |-> <<>>]
  /\ rlog = [w \in EvWins |-> <<>>]

\* func (w *Win) EventChan() <-chan *Event, run to completion.
EventChan(w) ==
  /\ ~exited
  /\ IF c[w] = 0
       THEN /\ nmade' = [nmade EXCEPT ![w] = @ + 1]
            /\ c' = [c EXCEPT ![w] = nmade[w] + 1]
            /\ readers' = [readers EXCEPT ![w] = @ + 1]
            /\ rpc' = [rpc EXCEPT ![w] = "read"]
       ELSE UNCHANGED <<c, nmade, readers, rpc>>
  /\ returned' = [returned EXCEPT ![w] = @ \cup {c'[w]}]
  /\ UNCHANGED <<held, closed, decoded, received, rlog>>
  /\ UNCHANGED regVars

\* eventReader reading the next event without sending the one just read.
ReaderReadSkipSend(w, ok) ==
  /\ ~exited
  /\ rpc[w] = "read"
  /\ IF ok
       THEN /\ Len(decoded[w]) < MaxEvents
            /\ decoded' = [decoded EXCEPT ![w] = Append(@, Len(@) + 1)]
            /\ UNCHANGED <<held, rpc>>
       ELSE /\ rpc' = [rpc EXCEPT ![w] = "sentinel"]
            /\ UNCHANGED <<held, decoded>>
  /\ UNCHANGED <<c, nmade, readers, returned, closed, received, rlog>>
  /\ UNCHANGED regVars

\* eventReader leaving its loop straight for w.drop(), with no empty Event sent.
ReaderReadNoSentinel(w, ok) ==
  /\ ~exited
  /\ rpc[w] = "read"
  /\ IF ok
       THEN /\ Len(decoded[w]) < MaxEvents
            /\ decoded' = [decoded EXCEPT ![w] = Append(@, Len(@) + 1)]
            /\ held' = [held EXCEPT ![w] = Len(decoded[w]) + 1]
            /\ rpc' = [rpc EXCEPT ![w] = "send"]
       ELSE /\ rpc' = [rpc EXCEPT ![w] = "drop"]
            /\ UNCHANGED <<held, decoded>>
  /\ UNCHANGED <<c, nmade, readers, returned, closed, received, rlog>>
  /\ UNCHANGED regVars

\* eventReader, e, err := w.ReadEvent(): ok is whether the read succeeds. The
\* n-th event decoded for a window is the number n. After an error the loop is
\* left for the send of the empty Event.
ReaderRead(w, ok) ==
  /\ ~exited
  /\ rpc[w] = "read"
  /\ IF ok
       THEN /\ Len(decoded[w]) < MaxEvents
            /\ decoded' = [decoded EXCEPT ![w] = Append(@, Len(@) + 1)]
            /\ held' = [held EXCEPT ![w] = Len(decoded[w]) + 1]
            /\ rpc' = [rpc EXCEPT ![w] = "send"]
       ELSE /\ rpc' = [rpc EXCEPT ![w] = "sentinel"]
            /\ UNCHANGED <<held, decoded>>
  /\ UNCHANGED <<c, nmade, readers, returned, closed, received, rlog>>
  /\ UNCHANGED regVars

\* The consumer's receive from w.c, which is unbuffered: it completes the send
\* the task is blocked in, `w.c <- e` in the loop or `w.c <- new(Event)` after it.
Recv(w) ==
  /\ ~exited
  /\ rpc[w] \in {"send", "sentinel"}
  /\ IF rpc[w] = "send"
       THEN /\ received' = [received EXCEPT ![w] = Append(@, held[w])]
            /\ held' = [held EXCEPT ![w] = 0]
            /\ rpc' = [rpc EXCEPT ![w] = "read"]
            /\ UNCHANGED rlog
       ELSE /\ received' = [received EXCEPT ![w] = Append(@, 0)]
            /\ rlog' = [rlog EXCEPT ![w] = Append(@, "sentinel")]
            /\ rpc' = [rpc EXCEPT ![w] = "drop"]
            /\ UNCHANGED held
  /\ UNCHANGED <<c, nmade, readers, returned, closed, decoded>>
  /\ UNCHANGED regVars

\* eventReader calling w.drop() without waiting for the empty Event to be
\* received.
ReaderDropEarly(w) ==
  /\ rpc[w] \in {"sentinel", "drop"}
  /\ Drop(w)
  /\ rlog' = [rlog EXCEPT ![w] = Append(@, "drop")]
  /\ rpc' = [rpc EXCEPT ![w] = "close"]
  /\ UNCHANGED <<c, nmade, readers, returned, held, closed, decoded, received>>

\* eventReader, w.drop().
ReaderDrop(w) ==
  /\ rpc[w] = "drop"
  /\ Drop(w)
  /\ rlog' = [rlog EXCEPT ![w] = Append(@, "drop")]
  /\ rpc' = [rpc EXCEPT ![w] = "close"]
  /\ UNCHANGED <<c, nmade, readers, returned, held, closed, decoded, received>>

\* eventReader ending with w.c left open.
ReaderCloseLeftOpen(w) ==
  /\ ~exited
  /\ rpc[w] = "close"
  /\ rlog' = [rlog EXCEPT ![w] = Append(@, "close")]
  /\ rpc' = [rpc EXCEPT ![w] = "done"]
  /\ UNCHANGED <<c, nmade, readers, returned, held, closed, decoded, received>>
  /\ UNCHANGED regVars

\* eventReader, close(w.c), and the task's end.
ReaderClose(w) ==
  /\ ~exited
  /\ rpc[w] = "close"
  /\ closed' = [closed EXCEPT ![w] = TRUE]
  /\ rlog' = [rlog EXCEPT ![w] = Append(@, "close")]
  /\ rpc' = [rpc EXCEPT ![w] = "done"]
  /\ UNCHANGED <<c, nmade, readers, returned, held, decoded, received>>
  /\ UNCHANGED regVars

\* ------------------------------------------------------------------ concurrent callers
\* Goroutines calling Open, drop, Show, DeleteAll, AutoExit and EventChan at
\* the same time, a step per statement (or per run of statements under the
\* lock). All windows are unnamed here, and Show is called with "".
Procs == 1..NumProcs

ConcInit ==
  /\ windowsMu = 0
  /\ pc = [g \in Procs |-> "idle"]
  /\ loc = [g \in Procs |-> 0]

\* Open, w := new(Win); w.id = id; w.ctl = ctl; w.next = nil; w.prev = last.
\* windowsMu is not taken.
COpenAlloc(g) ==
  /\ ~exited
  /\ pc[g] = "idle"
  /\ nwin < MaxEvWins
  /\ LET w == nwin + 1 IN
     /\ nwin' = w
     /\ next' = next @@ (w :> 0)
     /\ prev' = prev @@ (w :> last)
     /\ wname' = wname @@ (w :> "")
     /\ lastCtl' = lastCtl @@ (w :> "")
     /\ loc' = [loc EXCEPT ![g] = w]
  /\ pc' = [pc EXCEPT ![g] = "open_link"]
  /\ UNCHANGED <<windows, last, autoExit, exited, live, op, windowsMu>>
  /\ UNCHANGED evVars

\* Open, if last != nil { last.next = w } else { windows = w }.
COpenLink(g) ==
  /\ ~exited
  /\ pc[g] = "open_link"
  /\ IF last # 0
       THEN /\ next' = [next EXCEPT ![last] = loc[g]]
            /\ UNCHANGED windows
       ELSE /\ windows' = loc[g]
            /\ UNCHANGED next
  /\ pc' = [pc EXCEPT ![g] = "open_last"]
  /\ UNCHANGED <<last, prev, nwin, wname, autoExit, exited, lastCtl, live, op, windowsMu, loc>>
  /\ UNCHANGED evVars

\* Open, last = w; return w, nil.
COpenLast(g) ==
  /\ ~exited
  /\ pc[g] = "open_last"
  /\ last' = loc[g]
  /\ live' = live \cup {loc[g]}
  /\ op' = [kind |-> "Open", arg |-> 0, res |-> loc[g]]
  /\ pc' = [pc EXCEPT ![g] = "idle"]
  /\ loc' = [loc EXCEPT ![g] = 0]
  /\ UNCHANGED <<windows, next, prev, nwin, wname, autoExit, exited, lastCtl, windowsMu>>
  /\ UNCHANGED evVars

\* The Wins Open has returned to its caller.
Opened == {w \in Allocated : \A g \in Procs : ~(pc[g] \in {"open_link", "open_last"} /\ loc[g] = w)}

\* drop, windowsMu.Lock().
CDropLock(g, w) ==
  /\ ~exited
  /\ pc[g] = "idle"
  /\ w \in Opened
  /\ windowsMu = 0
  /\ windowsMu' = g
  /\ loc' = [loc EXCEPT ![g] = w]
  /\ pc' = [pc EXCEPT ![g] = "drop_locked"]
  /\ UNCHANGED regVars
  /\ UNCHANGED evVars

\* drop, w.dropLocked() and the deferred windowsMu.Unlock().
CDropBody(g) ==
  /\ ~exited
  /\ pc[g] = "drop_locked"
  /\ DropLocked(loc[g])
  /\ live' = live \ {loc[g]}
  /\ op' = [kind |-> "drop", arg |-> loc[g], res |-> 0]
  /\ windowsMu' = 0
  /\ pc' = [pc EXCEPT ![g] = "idle"]
  /\ loc' = [loc EXCEPT ![g] = 0]
  /\ UNCHANGED <<nwin, wname, autoExit, lastCtl>>
  /\ UNCHANGED evVars

\* AutoExit: Lock, autoExit = exit, Unlock.
CAutoExit(g, exit) ==
  /\ pc[g] = "idle"
  /\ windowsMu = 0
  /\ AutoExit(exit)
  /\ UNCHANGED concVars
  /\ UNCHANGED evVars

\* Show(""), windowsMu.Lock() and the scan of the list up to the first match;
\* with a match the goroutine goes on to w.Ctl("show"), the lock held.
CShowLock(g) ==
  /\ ~exited
  /\ pc[g] = "idle"
  /\ windowsMu = 0
  /\ windowsMu' = g
  /\ LET w == FirstNamed(windows, "", nwin) IN
     /\ loc' = [loc EXCEPT ![g] = w]
     /\ pc' = [pc EXCEPT ![g] = IF w = 0 THEN "show_ret" ELSE "show_write"]
  /\ UNCHANGED regVars
  /\ UNCHANGED evVars

\* Show, the write of "show" to the window's ctl file returns (ok: without
\* error), and w.dropLocked() when it failed.
CShowWrite(g, ok) ==
  /\ ~exited
  /\ pc[g] = "show_write"
  /\ IF ok
       THEN /\ lastCtl' = [lastCtl EXCEPT ![loc[g]] = "show"]
            /\ op' = [kind |-> "Show", arg |-> "", res |-> loc[g]]
            /\ UNCHANGED <<windows, last, next, prev, exited, live>>
       ELSE /\ DropLocked(loc[g])
            /\ live' = live \ {loc[g]}
            /\ op' = [kind |-> "ShowFail", arg |-> loc[g], res |-> 0]
            /\ UNCHANGED lastCtl
  /\ pc' = [pc EXCEPT ![g] = "show_ret"]
  /\ UNCHANGED <<nwin, wname, autoExit, windowsMu, loc>>
  /\ UNCHANGED evVars

\* Show, the return and the deferred windowsMu.Unlock().
CShowRet(g) ==
  /\ ~exited
  /\ pc[g] = "show_ret"
  /\ windowsMu' = 0
  /\ pc' = [pc EXCEPT ![g] = "idle"]
  /\ loc' = [loc EXCEPT ![g] = 0]
  /\ UNCHANGED regVars
  /\ UNCHANGED evVars

\* DeleteAll, w := windows. windowsMu is not taken.
CDeleteAllStart(g) ==
  /\ ~exited
  /\ pc[g] = "idle"
  /\ loc' = [loc EXCEPT ![g] = windows]
  /\ pc' = [pc EXCEPT ![g] = IF windows = 0 THEN "idle" ELSE "delall_write"]
  /\ op' = [kind |-> "DeleteAll", arg |-> 0, res |-> 0]
  /\ UNCHANGED <<windows, last, next, prev, nwin, wname, autoExit, exited, lastCtl, live, windowsMu>>
  /\ UNCHANGED evVars

\* DeleteAll, w.Ctl("delete") returns (its error is ignored); w = w.next.
CDeleteAllWrite(g, ok) ==
  /\ ~exited
  /\ pc[g] = "delall_write"
  /\ lastCtl' = IF ok THEN [lastCtl EXCEPT ![loc[g]] = "delete"] ELSE lastCtl
  /\ loc' = [loc EXCEPT ![g] = next[loc[g]]]
  /\ pc' = [pc EXCEPT ![g] = IF next[loc[g]] = 0 THEN "idle" ELSE "delall_write"]
  /\ UNCHANGED <<windows, last, next, prev, nwin, wname, autoExit, exited, live, op, windowsMu>>
  /\ UNCHANGED evVars

\* EventChan, if w.c == nil: with a channel already there it is returned.
CEventChanCheck(g, w) ==
  /\ ~exited
  /\ pc[g] = "idle"
  /\ w \in Opened
  /\ IF c[w] = 0
       THEN /\ loc' = [loc EXCEPT ![g] = w]
            /\ pc' = [pc EXCEPT ![g] = "ec_make"]
            /\ UNCHANGED returned
       ELSE /\ returned' = [returned EXCEPT ![w] = @ \cup {c[w]}]
            /\ UNCHANGED <<pc, loc>>
  /\ UNCHANGED <<c, nmade, readers, rpc, held, closed, decoded, received, rlog>>
  /\ UNCHANGED windowsMu
  /\ UNCHANGED regVars

\* EventChan, w.c = make(chan *Event, 0).
CEventChanMake(g) ==
  /\ ~exited
  /\ pc[g] = "ec_make"
  /\ nmade' = [nmade EXCEPT ![loc[g]] = @ + 1]
  /\ c' = [c EXCEPT ![loc[g]] = nmade[loc[g]] + 1]
  /\ pc' = [pc EXCEPT ![g] = "ec_go"]
  /\ UNCHANGED <<readers, returned, rpc, held, closed, decoded, received, rlog>>
  /\ UNCHANGED <<windowsMu, loc>>
  /\ UNCHANGED regVars

\* EventChan, go w.eventReader(); return w.c. (The tasks are started and
\* counted; they are not run in this specification.)
CEventChanGo(g) ==
  /\ ~exited
  /\ pc[g] = "ec_go"
  /\ readers' = [readers EXCEPT ![loc[g]] = @ + 1]
  /\ returned' = [returned EXCEPT ![loc[g]] = @ \cup {c[loc[g]]}]
  /\ pc' = [pc EXCEPT ![g] = "idle"]
  /\ loc' = [loc EXCEPT ![g] = 0]
  /\ UNCHANGED <<c, nmade, rpc, held, closed, decoded, received, rlog>>
  /\ UNCHANGED windowsMu
  /\ UNCHANGED regVars

\* ------------------------------------------------------------------ event codec
\* A rune is a string of one character; a text is a sequence of runes.
eventSize == 256

Digits == <<"0", "1", "2", "3", "4", "5", "6", "7", "8", "9">>

\* geten, !(c < '0' || c > '9')
IsDigit(ch) == \E i \in 1..10 : Digits[i] = ch

\* geten, int(c) - '0'
DigitVal(ch) == (CHOOSE i \in 1..10 : Digits[i] = ch) - 1

\* fmt's %d of an int.
RECURSIVE ItoaNat(_)
ItoaNat(n) == IF n < 10 THEN <<Digits[n + 1]>> ELSE ItoaNat(n \div 10) \o <<Digits[(n % 10) + 1]>>

Itoa(n) == IF n < 0 THEN <<"-">> \o ItoaNat(-n) ELSE ItoaNat(n)

\* Flag&bit != 0, for bit a power of two.
HasBit(flag, bit) == (flag \div bit) % 2 = 1

ZeroEvent ==
  [C1 |-> "", C2 |-> "", Q0 |-> 0, Q1 |-> 0, OrigQ0 |-> 0, OrigQ1 |-> 0,
   Flag |-> 0, Nb |-> 0, Nr |-> 0, Text |-> <<>>, Arg |-> <<>>, Loc |-> <<>>]

\* func (w *Win) getec() rune: the next rune, or a panic with the read error
\* (the end of the file). panic = "" means no panic.
Getec(buf) ==
  IF buf = <<>>
    THEN [panic |-> "EOF", c |-> "", rest |-> buf]
    ELSE [panic |-> "", c |-> Head(buf), rest |-> Tail(buf)]

\* The width of Go's int, here that of the 32-bit targets (386, arm); on the
\* 64-bit targets the same happens at 2^64.
IntBits == 32

HalfWord == 2 ^ (IntBits \div 2)

\* geten, n = n*10 + int(c) - '0' in Go's int: the result wraps around at
\* 2^IntBits into -2^(IntBits-1) .. 2^(IntBits-1)-1. Computed on the two
\* halves of n so that no intermediate value leaves that range.
TimesTenPlus(n, d) ==
  LET lo == (n % HalfWord) * 10 + d
      hi == (n \div HalfWord) * 10 + (lo \div HalfWord)
  IN  (((hi + HalfWord \div 2) % HalfWord) - HalfWord \div 2) * HalfWord + (lo % HalfWord)

\* func (w *Win) geten() int: digits up to a rune that is no digit, which must
\* be a space.
RECURSIVE Geten(_, _)
Geten(buf, n) ==
  IF buf = <<>> THEN [panic |-> "EOF", n |-> 0, rest |-> buf]
  ELSE IF IsDigit(Head(buf)) THEN Geten(Tail(buf), TimesTenPlus(n, DigitVal(Head(buf))))
  ELSE IF Head(buf) # " " THEN [panic |-> "event number syntax", n |-> 0, rest |-> Tail(buf)]
  ELSE [panic |-> "", n |-> n, rest |-> Tail(buf)]

\* The state of gete between its reads: the panic raised if any, the fields
\* read so far (C1, C2, Q0, Q1, Flag, Nr, Text), the runes left.
GeteStart(buf) == [panic |-> "", f |-> <<>>, rest |-> buf]

GotRune(p, r) ==
  [panic |-> r.panic, f |-> IF r.panic = "" THEN Append(p.f, r.c) ELSE p.f, rest |-> r.rest]

GotNumber(p, r) ==
  [panic |-> r.panic, f |-> IF r.panic = "" THEN Append(p.f, r.n) ELSE p.f, rest |-> r.rest]

\* gete, e.C1 = w.getec() and e.C2 = w.getec()
ReadRune(p) == IF p.panic # "" THEN p ELSE GotRune(p, Getec(p.rest))

\* gete, e.Q0 = w.geten() and the like
ReadNumber(p) == IF p.panic # "" THEN p ELSE GotNumber(p, Geten(p.rest, 0))

\* gete, if e.Nr > eventSize { panic("event string too long") }
CheckNr(p) ==
  IF p.panic # "" THEN p
  ELSE IF p.f[6] > eventSize THEN [p EXCEPT !.panic = "event string too long"]
  ELSE p

\* gete, for i := 0; i < e.Nr; i++ { r[i] = w.getec() }: k runes, or as many as
\* there are and then the panic of getec.
TakeRunes(p, k) ==
  IF Len(p.rest) < k
    THEN [p EXCEPT !.panic = "EOF", !.rest = <<>>]
    ELSE [p EXCEPT !.f = Append(@, SubSeq(p.rest, 1, k)), !.rest = SubSeq(p.rest, k + 1, Len(p.rest))]

\* The panics of the Go runtime; their value is a runtime.Error and no string.
RuntimeErrors == {"runtime error: makeslice: len out of range"}

\* gete, r := make([]rune, e.Nr) and the loop after it; make panics on a
\* negative length.
ReadText(p) ==
  IF p.panic # "" THEN p
  ELSE IF p.f[6] < 0 THEN [p EXCEPT !.panic = "runtime error: makeslice: len out of range"]
  ELSE TakeRunes(p, p.f[6])

\* gete, if w.getec() != '\n' { panic("phase error") }
ReadNewline(p) ==
  IF p.panic # "" THEN p
  ELSE IF p.rest = <<>> THEN [p EXCEPT !.panic = "EOF"]
  ELSE IF Head(p.rest) # "\n" THEN [p EXCEPT !.panic = "phase error", !.rest = Tail(@)]
  ELSE [p EXCEPT !.rest = Tail(@)]

GeteResult(p) ==
  IF p.panic # ""
    THEN [panic |-> p.panic, e |-> ZeroEvent, rest |-> p.rest]
    ELSE [panic |-> "",
          e |-> [ZeroEvent EXCEPT !.C1 = p.f[1], !.C2 = p.f[2], !.Q0 = p.f[3], !.Q1 = p.f[4],
                                  !.Flag = p.f[5], !.Nr = p.f[6], !.Text = p.f[7]],
          rest |-> p.rest]

\* func (w *Win) gete(e *Event): one record.
Gete(buf) ==
  GeteResult(ReadNewline(ReadText(CheckNr(
    ReadNumber(ReadNumber(ReadNumber(ReadNumber(ReadRune(ReadRune(GeteStart(buf)))))))))))

\* What ReadEvent returns: e (nil when isnil), err ("" for nil), what is left
\* of the event file, and the number of records read in full.
\* crashed: the deferred function's v.(string) met a panic value that is no
\* string and panicked itself, so ReadEvent did not return and the program is
\* down.
Recovered(msg, rest, n) ==
  IF msg \in RuntimeErrors
    THEN [isnil |-> TRUE, e |-> ZeroEvent, err |-> "", rest |-> rest, nrec |-> n, crashed |-> TRUE]
    ELSE [isnil |-> TRUE, e |-> ZeroEvent, err |-> "malformed acme event: " \o msg, rest |-> rest,
          nrec |-> n, crashed |-> FALSE]

Returned(e, rest, n) ==
  [isnil |-> FALSE, e |-> e, err |-> "", rest |-> rest, nrec |-> n, crashed |-> FALSE]

\* The chorded argument with Arg and Loc taken from the wrong records.
AfterFourthSwapped(e, arg, r4, n) ==
  IF r4.panic # "" THEN Recovered(r4.panic, r4.rest, n)
  ELSE Returned([e EXCEPT !.Arg = r4.e.Text, !.Loc = arg], r4.rest, n + 1)

\* ReadEvent, e.Arg = e3.Text; e.Loc = e4.Text; return e, nil. r4 is what
\* w.gete(e4) gave.
AfterFourth(e, arg, r4, n) ==
  IF r4.panic # "" THEN Recovered(r4.panic, r4.rest, n)
  ELSE Returned([e EXCEPT !.Arg = arg, !.Loc = r4.e.Text], r4.rest, n + 1)

\* ReadEvent, w.gete(e4) after w.gete(e3), which gave r3.
AfterThird(e, r3, n) ==
  IF r3.panic # "" THEN Recovered(r3.panic, r3.rest, n)
  ELSE AfterFourth(e, r3.e.Text, Gete(r3.rest), n + 1)

\* ReadEvent, the chorded argument: with e.Flag&8 set, two more records, whose
\* Text become e.Arg and e.Loc. n records have been read before.
ReadChorded(e, buf, n) ==
  IF HasBit(e.Flag, 8) THEN AfterThird(e, Gete(buf), n) ELSE Returned(e, buf, n)

\* The expansion with e2 taking the place of e whole, its own Flag included.
AfterSecondOwnFlag(e, r2) ==
  IF r2.panic # "" THEN Recovered(r2.panic, r2.rest, 1)
  ELSE IF e.Q0 = e.Q1
    THEN ReadChorded([r2.e EXCEPT !.OrigQ0 = e.Q0, !.OrigQ1 = e.Q1], r2.rest, 2)
    ELSE ReadChorded(e, r2.rest, 2)

\* The expansion with e2 read and never put in the place of e.
AfterSecondNoExpand(e, r2) ==
  IF r2.panic # "" THEN Recovered(r2.panic, r2.rest, 1)
  ELSE ReadChorded(e, r2.rest, 2)

\* ReadEvent, the expansion once w.gete(e2) gave r2: if e.Q0 == e.Q1, e2 gets
\* e's OrigQ0, OrigQ1 and Flag and becomes e.
AfterSecond(e, r2) ==
  IF r2.panic # "" THEN Recovered(r2.panic, r2.rest, 1)
  ELSE IF e.Q0 = e.Q1
    THEN ReadChorded([r2.e EXCEPT !.OrigQ0 = e.Q0, !.OrigQ1 = e.Q1, !.Flag = e.Flag], r2.rest, 2)
    ELSE ReadChorded(e, r2.rest, 2)

\* ReadEvent reading the second record only when the selection is empty.
ExpansionWhenEmpty(e, rest) ==
  IF HasBit(e.Flag, 2) /\ e.Q0 = e.Q1 THEN AfterSecond(e, Gete(rest)) ELSE ReadChorded(e, rest, 1)

\* ReadEvent, if e.Flag&2 != 0 { e2 := new(Event); w.gete(e2); ... }
Expansion(e, rest) ==
  IF HasBit(e.Flag, 2) THEN AfterSecond(e, Gete(rest)) ELSE ReadChorded(e, rest, 1)

\* ReadEvent with OrigQ0 and OrigQ1 left as new(Event) made them.
AfterPrimaryNoOrig(r1) ==
  IF r1.panic # "" THEN Recovered(r1.panic, r1.rest, 0)
  ELSE Expansion(r1.e, r1.rest)

\* ReadEvent, e.OrigQ0 = e.Q0; e.OrigQ1 = e.Q1, once w.gete(e) gave r1.
AfterPrimary(r1) ==
  IF r1.panic # "" THEN Recovered(r1.panic, r1.rest, 0)
  ELSE Expansion([r1.e EXCEPT !.OrigQ0 = r1.e.Q0, !.OrigQ1 = r1.e.Q1], r1.rest)

\* func (w *Win) ReadEvent() (e *Event, err error). fidOk: w.fid("event")
\* returns no error. A panic below is recovered into (nil, err).
ReadEvent(buf, fidOk) ==
  IF ~fidOk
    THEN [isnil |-> TRUE, e |-> ZeroEvent, err |-> "open", rest |-> buf, nrec |-> 0, crashed |-> FALSE]
    ELSE AfterPrimary(Gete(buf))

\* WriteEvent writing the Flag field behind Q1.
WriteEventBytesWithFlag(e) ==
  <<e.C1, e.C2>> \o Itoa(e.Q0) \o <<" ">> \o Itoa(e.Q1) \o <<" ">> \o Itoa(e.Flag) \o <<" ", "\n">>

\* WriteEvent with no space after Q1.
WriteEventBytesNoSpace(e) ==
  <<e.C1, e.C2>> \o Itoa(e.Q0) \o <<" ">> \o Itoa(e.Q1) \o <<"\n">>

\* func (w *Win) WriteEvent(e *Event) error: the bytes of
\* fmt.Fprintf(&buf, "%c%c%d %d \n", e.C1, e.C2, e.Q0, e.Q1).
WriteEventBytes(e) ==
  <<e.C1, e.C2>> \o Itoa(e.Q0) \o <<" ">> \o Itoa(e.Q1) \o <<" ", "\n">>

\* ------------------------------------------------------------------ event file contents
\* What acme writes to the event file, one record per line in the format gete
\* reads: the two runes, then four numbers each followed by a space, the text,
\* and a newline.
HostRecord(c2, q0, q1, flag, text) ==
  [C1 |-> "M", C2 |-> c2, Q0 |-> q0, Q1 |-> q1, Flag |-> flag, Nr |-> Len(text), Text |-> text]

EncodeRecord(r) ==
  <<r.C1, r.C2>> \o Itoa(r.Q0) \o <<" ">> \o Itoa(r.Q1) \o <<" ">> \o Itoa(r.Flag) \o <<" ">>
    \o Itoa(r.Nr) \o <<" ">> \o r.Text \o <<"\n">>

RECURSIVE EncodeAll(_)
EncodeAll(rs) == IF rs = <<>> THEN <<>> ELSE EncodeRecord(Head(rs)) \o EncodeAll(Tail(rs))

QVals == {0, 7, MaxQ}
FlagVals == {0, 1, 2, 8, 10}
Texts == {<<>>, <<"a", "b">>}

Primaries == {HostRecord(c2, q0, q1, f, t) :
                c2 \in {"x", "L"}, q0 \in QVals, q1 \in QVals, f \in FlagVals, t \in Texts}
Seconds == {HostRecord("X", 3, q1, f, <<"c">>) : q1 \in {3, 10 + MaxQ}, f \in {0, 8}}
Thirds == {HostRecord("x", 0, 0, 0, t) : t \in {<<>>, <<"d">>}}
Fourths == {HostRecord("x", 0, 0, 0, <<"e", "f">>)}

HostStreams ==
  {<<p>> : p \in Primaries}
  \cup {<<p, s>> : p \in Primaries, s \in Seconds}
  \cup {<<p, s, t>> : p \in Primaries, s \in Seconds, t \in Thirds}
  \cup {<<p, s, t, f>> : p \in Primaries, s \in Seconds, t \in Thirds, f \in Fourths}

\* ------------------------------------------------------------------ damaged event files
\* An event file that is not the records of recs as acme writes them: cut
\* short (the stream ends inside record rec, after off of its runes), with one
\* rune of a record that is a digit, a separating space or the final newline
\* replaced by another rune, or with the Nr field of a record written as a
\* number that Go's int does not hold.
NoFault == [kind |-> "none", rec |-> 0, off |-> 0, digits |-> <<>>]

\* EncodeRecord with the digits of the Nr field given.
EncodeRecordNr(r, digits) ==
  <<r.C1, r.C2>> \o Itoa(r.Q0) \o <<" ">> \o Itoa(r.Q1) \o <<" ">> \o Itoa(r.Flag) \o <<" ">>
    \o digits \o <<" ">> \o r.Text \o <<"\n">>

Repeat(x, n) == [i \in 1..n |-> x]

\* What each rune of EncodeRecord(r) is to gete.
RuneKinds(r) ==
  <<"rune", "rune">> \o Repeat("digit", Len(Itoa(r.Q0))) \o <<"space">>
    \o Repeat("digit", Len(Itoa(r.Q1))) \o <<"space">>
    \o Repeat("digit", Len(Itoa(r.Flag))) \o <<"space">>
    \o Repeat("digit", Len(Itoa(r.Nr))) \o <<"space">>
    \o Repeat("rune", Len(r.Text)) \o <<"newline">>

\* 2^31, and 2^32 plus 0, 1 and 2, in decimal.
BigNumbers ==
  {<<"2", "1", "4", "7", "4", "8", "3", "6", "4", "8">>,
   <<"4", "2", "9", "4", "9", "6", "7", "2", "9", "6">>,
   <<"4", "2", "9", "4", "9", "6", "7", "2", "9", "7">>,
   <<"4", "2", "9", "4", "9", "6", "7", "2", "9", "8">>}

\* The faults an event file of the records rs can have.
Faults(rs) ==
  {NoFault}
  \cup UNION {{[kind |-> "cut", rec |-> k, off |-> o, digits |-> <<>>] :
                 o \in 0..(Len(EncodeRecord(rs[k])) - 1)} : k \in 1..Len(rs)}
  \cup UNION {{[kind |-> "subst", rec |-> k, off |-> o, digits |-> <<>>] :
                 o \in {i \in 1..Len(EncodeRecord(rs[k])) : RuneKinds(rs[k])[i] # "rune"}} :
               k \in 1..Len(rs)}
  \cup {[kind |-> "nr", rec |-> k, off |-> 0, digits |-> d] : k \in 1..Len(rs), d \in BigNumbers}

\* The runes of record k of rs in an event file with fault f.
FaultyRecord(rs, f, k) ==
  IF f.kind = "none" \/ k < f.rec THEN EncodeRecord(rs[k])
  ELSE IF f.kind = "cut" THEN (IF k = f.rec THEN SubSeq(EncodeRecord(rs[k]), 1, f.off) ELSE <<>>)
  ELSE IF k > f.rec THEN EncodeRecord(rs[k])
  ELSE IF f.kind = "subst" THEN [EncodeRecord(rs[k]) EXCEPT ![f.off] = "z"]
  ELSE EncodeRecordNr(rs[k], f.digits)

RECURSIVE FaultyFrom(_, _, _)
FaultyFrom(rs, f, k) ==
  IF k > Len(rs) THEN <<>> ELSE FaultyRecord(rs, f, k) \o FaultyFrom(rs, f, k + 1)

\* The event file of the records rs with fault f.
FaultyFile(rs, f) == FaultyFrom(rs, f, 1)

\* A record whose text is n runes long.
LongRecord(c2, flag, n) == HostRecord(c2, 7, 7, flag, Repeat("a", n))

\* Four records that one ReadEvent call reads (the primary has bits 2 and 8),
\* record k of them with a text of n runes.
LongStream(k, n) ==
  [i \in 1..4 |->
     IF i = k THEN LongRecord(IF i = 1 THEN "x" ELSE "X", IF i = 1 THEN 10 ELSE 0, n)
     ELSE IF i = 1 THEN HostRecord("x", 7, 7, 10, <<>>)
     ELSE HostRecord("X", 3, 10 + MaxQ, 0, <<"c">>)]

LongStreams == {LongStream(k, n) : k \in 1..4, n \in {eventSize, eventSize + 1}}

\* Event files of four records for the faults: the primary with neither bit,
\* with one, with both.
FaultBases ==
  {<<HostRecord("x", 7, q1, f, <<>>), HostRecord("X", 3, 10 + MaxQ, 0, <<"c">>),
     HostRecord("x", 0, 0, 0, <<"d">>), HostRecord("x", 0, 0, 0, <<"e", "f">>)>> :
     q1 \in {7, MaxQ}, f \in {0, 2, 8, 10}}

NoResult == [isnil |-> TRUE, e |-> ZeroEvent, err |-> "", rest |-> <<>>, nrec |-> 0, crashed |-> FALSE]

\* An event file, damaged or not.
DecodeInit ==
  /\ \/ recs \in FaultBases /\ fault \in Faults(recs)
     \/ recs \in LongStreams /\ fault = NoFault
  /\ ebuf = FaultyFile(recs, fault)
  /\ res = NoResult
  /\ start = 0
  /\ nreads = 0
  /\ wev = ZeroEvent
  /\ wbuf = <<>>
  /\ phase = "host"


\* No event file in use.
CodecIdle ==
  /\ recs = <<>>
  /\ fault = NoFault
  /\ ebuf = <<>>
  /\ res = NoResult
  /\ start = 0
  /\ nreads = 0
  /\ wev = ZeroEvent
  /\ wbuf = <<>>
  /\ phase = "host"

\* An event file holding one to four records.
CodecInit ==
  /\ recs \in HostStreams
  /\ fault = NoFault
  /\ ebuf = EncodeAll(recs)
  /\ res = NoResult
  /\ start = 0
  /\ nreads = 0
  /\ wev = ZeroEvent
  /\ wbuf = <<>>
  /\ phase = "host"

\* A call of ReadEvent; calls go on while they succeed.
CReadEvent(fidOk) ==
  /\ phase \in {"host", "looped"}
  /\ nreads < MaxReads
  /\ nreads = 0 \/ ~res.isnil \/ phase = "looped"
  /\ res' = ReadEvent(ebuf, fidOk)
  /\ ebuf' = res'.rest
  /\ start' = IF phase = "looped" THEN 0 ELSE IF nreads = 0 THEN 1 ELSE start + res.nrec
  /\ nreads' = nreads + 1
  /\ phase' = IF phase = "looped" THEN "readback" ELSE phase
  /\ UNCHANGED <<recs, fault, wev, wbuf>>

\* A call of WriteEvent with the Event ReadEvent has just returned, as
\* EventLoop makes it.
CWriteEvent ==
  /\ phase = "host"
  /\ nreads >= 1
  /\ ~res.isnil
  /\ wev' = res.e
  /\ wbuf' = WriteEventBytes(res.e)
  /\ phase' = "written"
  /\ UNCHANGED <<recs, fault, ebuf, res, start, nreads>>

\* The bytes WriteEvent wrote are made the contents of an event file to read.
CLoopback ==
  /\ phase = "written"
  /\ ebuf' = wbuf
  /\ phase' = "looped"
  /\ UNCHANGED <<recs, fault, res, start, nreads, wev, wbuf>>

\* ------------------------------------------------------------------ event loop
\* Strings are sequences of one-rune strings.
IsSpace(ch) == ch \in {" ", "\t", "\n"}

RECURSIVE TrimLeft(_)
TrimLeft(str) ==
  IF str # <<>> /\ IsSpace(Head(str)) THEN TrimLeft(Tail(str)) ELSE str

RECURSIVE TrimRight(_)
TrimRight(str) ==
  IF str # <<>> /\ IsSpace(str[Len(str)]) THEN TrimRight(SubSeq(str, 1, Len(str) - 1)) ELSE str

\* strings.TrimSpace
TrimSpace(str) == TrimRight(TrimLeft(str))

\* strings.IndexAny(str, " \t"), counted from 1; 0 for Go's -1.
IndexBlank(str) ==
  IF \E i \in 1..Len(str) : str[i] \in {" ", "\t"}
    THEN CHOOSE i \in 1..Len(str) :
           /\ str[i] \in {" ", "\t"}
           /\ \A j \in 1..(i - 1) : str[j] \notin {" ", "\t"}
    ELSE 0

\* execute, verb, arg := cmd, ""; if i := ...; i >= 0 { verb, arg = ... }
VerbOf(cmd) == IF IndexBlank(cmd) > 0 THEN SubSeq(cmd, 1, IndexBlank(cmd) - 1) ELSE cmd

ArgOf(cmd) ==
  IF IndexBlank(cmd) > 0 THEN TrimSpace(SubSeq(cmd, IndexBlank(cmd) + 1, Len(cmd))) ELSE <<>>

\* The type of a method: the number of its parameters and of its results, and
\* the type of the first of each.
Sig(nin, in0, nout, out0) == [nin |-> nin, in0 |-> in0, nout |-> nout, out0 |-> out0]

\* Execute(cmd string) bool, which every EventHandler has. MethodByName finds
\* it under the name "Exec" + "ute".
ExecuteVerb == <<"u", "t", "e">>

ExecuteSig == Sig(1, "string", 1, "bool")

\* The types a handler's method ExecF is given.
ExecSigs ==
  {Sig(0, "", 0, ""), Sig(1, "string", 0, ""), Sig(0, "", 1, "error"), Sig(1, "string", 1, "error"),
   Sig(0, "", 2, "error"), Sig(1, "string", 1, "bool"), Sig(2, "string", 0, ""),
   Sig(1, "int", 0, ""), Sig(2, "string", 2, "error")}

\* The handlers: Execute and Look, and ExecF or not.
Handlers ==
  {(ExecuteVerb :> ExecuteSig)}
  \cup {(ExecuteVerb :> ExecuteSig) @@ (<<"F">> :> t) : t \in ExecSigs}

\* execute, the check of the method's type: "" when the method can be called,
\* or the message given to w.Errf.
BadMethod(t, arg) ==
  IF t.nout > 1 THEN "too many results"
  ELSE IF t.nout = 1 /\ t.out0 # "error" THEN "return type, not error"
  ELSE IF t.nin > 1 THEN "too many arguments"
  ELSE IF t.nin = 0 /\ arg # <<>> THEN "takes no arguments"
  ELSE IF t.nin = 1 /\ t.in0 # "string" THEN "argument type, not string"
  ELSE ""

Call(fn, verb, args) == [fn |-> fn, verb |-> verb, args |-> args]

\* execute passing the whole command to the method.
ExecFoundWholeCmd(verb, arg, t, cbErr) ==
  IF BadMethod(t, arg) # ""
    THEN [handled |-> TRUE, calls |-> <<>>, errs |-> <<BadMethod(t, arg)>>]
    ELSE [handled |-> TRUE,
          calls |-> <<Call("Exec", verb, IF t.nin > 0 THEN <<verb \o <<" ">> \o arg>> ELSE <<>>)>>,
          errs |-> IF t.nout = 1 /\ cbErr THEN <<"error of the method">> ELSE <<>>]

\* execute returning false after the report of a bad method.
ExecFoundNotHandled(verb, arg, t, cbErr) ==
  IF BadMethod(t, arg) # ""
    THEN [handled |-> FALSE, calls |-> <<>>, errs |-> <<BadMethod(t, arg)>>]
    ELSE [handled |-> TRUE,
          calls |-> <<Call("Exec", verb, IF t.nin > 0 THEN <<arg>> ELSE <<>>)>>,
          errs |-> IF t.nout = 1 /\ cbErr THEN <<"error of the method">> ELSE <<>>]

\* execute once the method m is found, of type t.
ExecFound(verb, arg, t, cbErr) ==
  IF BadMethod(t, arg) # ""
    THEN [handled |-> TRUE, calls |-> <<>>, errs |-> <<BadMethod(t, arg)>>]
    ELSE [handled |-> TRUE,
          calls |-> <<Call("Exec", verb, IF t.nin > 0 THEN <<arg>> ELSE <<>>)>>,
          errs |-> IF t.nout = 1 /\ cbErr THEN <<"error of the method">> ELSE <<>>]

\* func (w *Win) execute(h EventHandler, cmd string) bool. ret: what h.Execute
\* returns; cbErr: the method Exec<verb> returns an error that is not nil.
Execute(h, cmd, ret, cbErr) ==
  IF VerbOf(cmd) \notin DOMAIN h
    THEN [handled |-> ret, calls |-> <<Call("Execute", <<>>, <<cmd>>)>>, errs |-> <<>>]
    ELSE ExecFound(VerbOf(cmd), ArgOf(cmd), h[VerbOf(cmd)], cbErr)

\* What the xdata file gives for the address <<q0, q1>>.
Selection(a) == <<"text of", a[1], a[2]>>

LoopTexts ==
  {<<>>, <<" ">>, <<"F">>, <<" ", "F", " ">>, <<"F", " ", "a">>, <<"F", "\t", "a", " ", "b", " ">>,
   <<"\t", "F", " ", " ", "a", "\n">>, <<"G", " ", "a">>, <<"G">>, <<"u", "t", "e">>,
   <<"u", "t", "e", " ", "a">>}

\* The Events EventLoop is given: execute, look and other events, and the
\* empty Event eventReader sends last.
LoopEvent(c2, q1, t) ==
  [ZeroEvent EXCEPT !.C1 = "M", !.C2 = c2, !.Q0 = 7, !.Q1 = q1, !.OrigQ0 = 7, !.OrigQ1 = q1,
                    !.Nr = Len(t), !.Text = t]

LoopEvents ==
  {LoopEvent(c2, MaxQ, t) : c2 \in {"x", "X", "i"}, t \in LoopTexts}
  \cup {LoopEvent(c2, q1, t) : c2 \in {"l", "L"}, q1 \in {7, MaxQ}, t \in LoopTexts}
  \cup {ZeroEvent}

\* No event loop running.
LoopIdle ==
  /\ hmeth = (ExecuteVerb :> ExecuteSig)
  /\ laddr = <<0, 0>>
  /\ lev = ZeroEvent
  /\ ltext = <<>>
  /\ calls = <<>>
  /\ lret = TRUE
  /\ errs = <<>>
  /\ lwrote = <<>>
  /\ lpc = "none"
  /\ lwin = 0
  /\ lseen = <<>>

\* EventLoop(h) about to take its first Event.
LoopInit ==
  /\ hmeth \in Handlers
  /\ laddr \in {<<0, 0>>, <<1, 2>>}
  /\ lev = ZeroEvent
  /\ ltext = <<>>
  /\ calls = <<>>
  /\ lret = TRUE
  /\ errs = <<>>
  /\ lwrote = <<>>
  /\ lpc = "none"
  /\ lwin = 0
  /\ lseen = <<>>

\* EventLoop, case 'x', 'X': one execute event.
LoopExecute(e, ret, cbErr) ==
  /\ e.C2 \in {"x", "X"}
  /\ LET r == Execute(hmeth, TrimSpace(e.Text), ret, cbErr) IN
       /\ calls' = r.calls
       /\ errs' = r.errs
       /\ lwrote' = IF r.handled THEN <<>> ELSE <<WriteEventBytes(e)>>
  /\ lev' = e
  /\ ltext' = e.Text
  /\ lret' = ret
  /\ UNCHANGED <<hmeth, laddr>>

\* loadText's w.ReadAll("xdata") before its w.Addr.
LoadTextReadFirst(e, addrOk, readOk) ==
  IF Len(e.Text) = 0 /\ e.Q0 < e.Q1
    THEN [addr |-> IF addrOk THEN <<e.Q0, e.Q1>> ELSE laddr,
          text |-> IF readOk THEN Selection(laddr) ELSE <<>>,
          errs |-> IF readOk THEN <<>> ELSE <<"error of ReadAll">>]
    ELSE [addr |-> laddr, text |-> e.Text, errs |-> <<>>]

\* func (w *Win) loadText(e *Event, h EventHandler). addrOk, readOk: the write
\* to addr and the read of xdata succeed.
LoadText(e, addrOk, readOk) ==
  IF Len(e.Text) = 0 /\ e.Q0 < e.Q1
    THEN [addr |-> IF addrOk THEN <<e.Q0, e.Q1>> ELSE laddr,
          text |-> IF readOk THEN Selection(IF addrOk THEN <<e.Q0, e.Q1>> ELSE laddr) ELSE <<>>,
          errs |-> IF readOk THEN <<>> ELSE <<"error of ReadAll">>]
    ELSE [addr |-> laddr, text |-> e.Text, errs |-> <<>>]

\* EventLoop, case 'l', 'L': one look event.
LoopLook(e, ret, addrOk, readOk) ==
  /\ e.C2 \in {"l", "L"}
  /\ LET r == LoadText(e, addrOk, readOk) IN
       /\ laddr' = r.addr
       /\ ltext' = r.text
       /\ errs' = r.errs
       /\ calls' = <<Call("Look", <<>>, <<r.text>>)>>
       /\ lwrote' = IF ret THEN <<>> ELSE <<WriteEventBytes([e EXCEPT !.Text = r.text])>>
  /\ lev' = e
  /\ lret' = ret
  /\ UNCHANGED hmeth

\* EventLoop writing back the Events its switch has no case for.
LoopOtherWrittenBack(e) ==
  /\ e.C2 \notin {"x", "X", "l", "L"}
  /\ lev' = e
  /\ ltext' = e.Text
  /\ calls' = <<>>
  /\ errs' = <<>>
  /\ lwrote' = <<WriteEventBytes(e)>>
  /\ UNCHANGED <<hmeth, laddr, lret>>

\* EventLoop, an Event of any other kind: the switch has no case for it.
LoopOther(e) ==
  /\ e.C2 \notin {"x", "X", "l", "L"}
  /\ lev' = e
  /\ ltext' = e.Text
  /\ calls' = <<>>
  /\ errs' = <<>>
  /\ lwrote' = <<>>
  /\ UNCHANGED <<hmeth, laddr, lret>>

\* The Events of a window's stream that EventLoop ranges over; the empty
\* Event is the one eventReader sends last.
RangeEvents ==
  {LoopEvent(c2, MaxQ, <<"F">>) : c2 \in {"x", "L", "i"}}

\* EventLoop, w.EventChan(): the channel is made and eventReader started.
LoopStart(w) ==
  /\ lpc = "none"
  /\ EventChan(w)
  /\ lpc' = "range"
  /\ lwin' = w
  /\ UNCHANGED <<hmeth, laddr, lev, ltext, calls, lret, errs, lwrote, lseen>>

\* EventLoop, for e := range: the receive of the next Event from the channel.
\* e is the Event eventReader had decoded, or the empty one.
LoopRecv(e) ==
  /\ lpc = "range"
  /\ Recv(lwin)
  /\ e = ZeroEvent <=> rpc[lwin] = "sentinel"
  /\ lev' = e
  /\ lpc' = "body"
  /\ UNCHANGED <<hmeth, laddr, ltext, calls, lret, errs, lwrote, lwin, lseen>>

\* EventLoop, the switch on e.C2 for the Event received.
LoopBody(ret, cbErr, addrOk, readOk) ==
  /\ ~exited
  /\ lpc = "body"
  /\ \/ LoopExecute(lev, ret, cbErr) /\ addrOk /\ readOk
     \/ LoopLook(lev, ret, addrOk, readOk) /\ cbErr
     \/ LoopOther(lev) /\ ret /\ cbErr /\ addrOk /\ readOk
  /\ lseen' = Append(lseen, <<received[lwin][Len(received[lwin])], lev.C2>>)
  /\ lpc' = "range"
  /\ UNCHANGED lwin
  /\ UNCHANGED <<regVars, evVars>>

\* EventLoop, the range over a closed channel ends: EventLoop returns.
LoopReturn ==
  /\ ~exited
  /\ lpc = "range"
  /\ closed[lwin]
  /\ lpc' = "returned"
  /\ UNCHANGED <<hmeth, laddr, lev, ltext, calls, lret, errs, lwrote, lwin, lseen>>
  /\ UNCHANGED <<regVars, evVars>>

\* ------------------------------------------------------------------ Blink
MaxTicks == 5

\* Blink not called.
BlinkIdle ==
  /\ bpc = "none"
  /\ dirty = FALSE
  /\ tpend = FALSE
  /\ nticks = 0
  /\ spc = "idle"
  /\ sflight = FALSE
  /\ stopped = FALSE
  /\ bwrites = <<>>

\* func (w *Win) Blink() (stop func()): makes c, starts the goroutine (which
\* makes the ticker and sets dirty = false) and returns stop.
Blink ==
  /\ bpc = "none"
  /\ bpc' = "select"
  /\ dirty' = FALSE
  /\ UNCHANGED <<tpend, nticks, spc, sflight, stopped, bwrites>>

\* The ticker sends on t.C, unless a tick waits there already or t.Stop has
\* run.
TimerTick ==
  /\ bpc \notin {"none", "done"}
  /\ nticks < MaxTicks
  /\ ~tpend
  /\ tpend' = TRUE
  /\ nticks' = nticks + 1
  /\ UNCHANGED <<bpc, dirty, spc, sflight, stopped, bwrites>>

\* The goroutine, case <-t.C, with dirty left as it is.
BlinkTickKeepsDirty ==
  /\ bpc = "select"
  /\ tpend
  /\ tpend' = FALSE
  /\ dirty' = dirty
  /\ bpc' = "tick_write"
  /\ UNCHANGED <<nticks, spc, sflight, stopped, bwrites>>

\* The goroutine, case <-t.C: dirty = !dirty
BlinkTick ==
  /\ bpc = "select"
  /\ tpend
  /\ tpend' = FALSE
  /\ dirty' = ~dirty
  /\ bpc' = "tick_write"
  /\ UNCHANGED <<nticks, spc, sflight, stopped, bwrites>>

\* The goroutine, if dirty { w.Ctl("dirty") } else { w.Ctl("clean") }
BlinkTickWrite ==
  /\ bpc = "tick_write"
  /\ bwrites' = Append(bwrites, IF dirty THEN "dirty" ELSE "clean")
  /\ bpc' = "select"
  /\ UNCHANGED <<dirty, tpend, nticks, spc, sflight, stopped>>

\* stop is called: the caller is at c <- struct{}{}.
StopCall ==
  /\ bpc # "none"
  /\ spc \in {"idle", "returned"}
  /\ spc' = "send"
  /\ sflight' = (bpc = "tick_write")
  /\ UNCHANGED <<bpc, dirty, tpend, nticks, stopped, bwrites>>

\* The goroutine, case <-c, takes what the caller sends; the caller goes on
\* to <-c.
BlinkStopRecv ==
  /\ bpc = "select"
  /\ spc = "send"
  /\ bpc' = "stop_write"
  /\ spc' = "recv"
  /\ UNCHANGED <<dirty, tpend, nticks, sflight, stopped, bwrites>>

\* The goroutine after <-c, with no write to ctl.
BlinkStopNoWrite ==
  /\ bpc = "stop_write"
  /\ bpc' = "ack"
  /\ UNCHANGED <<dirty, tpend, nticks, spc, sflight, stopped, bwrites>>

\* The goroutine after <-c: w.Ctl("clean")
BlinkStopWrite ==
  /\ bpc = "stop_write"
  /\ bwrites' = Append(bwrites, "clean")
  /\ bpc' = "ack"
  /\ UNCHANGED <<dirty, tpend, nticks, spc, sflight, stopped>>

\* The goroutine's c <- struct{}{} meets the caller's <-c: the goroutine
\* returns (and its deferred t.Stop runs), stop returns.
BlinkAck ==
  /\ bpc = "ack"
  /\ spc = "recv"
  /\ bpc' = "done"
  /\ spc' = "returned"
  /\ stopped' = TRUE
  /\ UNCHANGED <<dirty, tpend, nticks, sflight, bwrites>>

\* ------------------------------------------------------------------ Sort
MaxText == 4
MaxRange == 6

\* strings.Split(str, "\n"): the pieces between the newlines, one more than
\* there are newlines.
RECURSIVE Split(_)
Split(str) ==
  IF \A i \in 1..Len(str) : str[i] # "\n" THEN <<str>>
  ELSE LET i == CHOOSE k \in 1..Len(str) : str[k] = "\n" /\ \A j \in 1..(k - 1) : str[j] # "\n"
       IN  <<SubSeq(str, 1, i - 1)>> \o Split(SubSeq(str, i + 1, Len(str)))

\* strings.Join(lines, "\n")
RECURSIVE Join(_)
Join(lines) ==
  IF lines = <<>> THEN <<>>
  ELSE IF Len(lines) = 1 THEN lines[1]
  ELSE lines[1] \o <<"\n">> \o Join(Tail(lines))

\* The comparison functions given to Sort: ascending and descending order of
\* the bytes, and shorter lines first (lines of one length compare equal).
LessKinds == {"ascending", "descending", "shorter"}

\* The place of a byte in the order of the bytes.
ByteRank(ch) == CHOOSE i \in 1..3 : <<"a", "b", "c">>[i] = ch

\* x < y for Go strings.
RECURSIVE BytesLess(_, _)
BytesLess(x, y) ==
  IF y = <<>> THEN FALSE
  ELSE IF x = <<>> THEN TRUE
  ELSE IF Head(x) = Head(y) THEN BytesLess(Tail(x), Tail(y))
  ELSE ByteRank(Head(x)) < ByteRank(Head(y))

Less(kind, x, y) ==
  IF kind = "ascending" THEN BytesLess(x, y)
  ELSE IF kind = "descending" THEN BytesLess(y, x)
  ELSE Len(x) < Len(y)

\* x put into the sorted lines behind every line that is not greater.
RECURSIVE InsertStable(_, _, _)
InsertStable(kind, sorted, x) ==
  IF sorted = <<>> THEN <<x>>
  ELSE IF Less(kind, x, Head(sorted)) THEN <<x>> \o sorted
  ELSE <<Head(sorted)>> \o InsertStable(kind, Tail(sorted), x)

\* sort.SliceStable(lines, less)
RECURSIVE SliceStable(_, _)
SliceStable(kind, lines) ==
  IF lines = <<>> THEN <<>>
  ELSE InsertStable(kind, SliceStable(kind, SubSeq(lines, 1, Len(lines) - 1)), lines[Len(lines)])

\* Sort, suffix and lines: the last piece is dropped, and a newline kept, when
\* that piece is empty.
SortSuffix(lines) == IF lines[Len(lines)] = <<>> THEN <<"\n">> ELSE <<>>

SortLines(lines) == IF lines[Len(lines)] = <<>> THEN SubSeq(lines, 1, Len(lines) - 1) ELSE lines

\* Sort, []byte(strings.Join(lines, "\n") + suffix)
SortedBytes(kind, data) ==
  Join(SliceStable(kind, SortLines(Split(data)))) \o SortSuffix(Split(data))

\* w.Addr("#%d,#%d", q0, q1)
AddrWrite(q) == [file |-> "addr", bytes |-> <<"#", q[1], ",#", q[2]>>]

DataWrite(bytes) == [file |-> "data", bytes |-> bytes]

RECURSIVE SeqsUpTo(_, _)
SeqsUpTo(S, n) ==
  IF n = 0 THEN {<<>>}
  ELSE SeqsUpTo(S, n - 1) \cup {Append(x, ch) : x \in SeqsUpTo(S, n - 1), ch \in S}

\* The texts an address range holds.
SortTexts == SeqsUpTo({"a", "b", "\n"}, MaxText) \cup {<<"b", "\n", "a", "\n", "c", "\n">>}

\* Sort not called.
SortIdle ==
  /\ stext = <<>>
  /\ sq = <<0, 0>>
  /\ sless = "ascending"
  /\ sdata = <<>>
  /\ sret = ""
  /\ swrites = <<>>
  /\ sfail = {}

\* A window whose address range holds a text, and a comparison function.
SortInit ==
  /\ stext \in SortTexts
  /\ \E q0 \in {0, 5} : sq = <<q0, q0 + Len(stext)>>
  /\ sless \in LessKinds
  /\ sdata = <<>>
  /\ sret = ""
  /\ swrites = <<>>
  /\ sfail = {}

\* The text of the window after the two writes of Sort. The read of xdata
\* leaves the address behind the range, so a data write that follows a failed
\* write to addr puts its bytes there.
SortWritten(text, bytes, addrWOk, dataWOk) ==
  IF ~dataWOk THEN text ELSE IF addrWOk THEN bytes ELSE text \o bytes

\* The files among addr and data the writes of a Sort call fail on.
SortFailed(addrWOk, dataWOk) ==
  (IF addrWOk THEN {} ELSE {"addr"}) \cup (IF dataWOk THEN {} ELSE {"data"})

\* Sort making its writes with what it has after a failed read, and
\* returning the error after them.
SortIgnoreReadError(addrOk, readOk, addrWOk, dataWOk) ==
  /\ Len(stext) <= MaxRange
  /\ sdata' = stext
  /\ sret' = IF ~addrOk THEN "error of ReadAddr" ELSE IF ~readOk THEN "error of ReadAll" ELSE "nil"
  /\ swrites' = <<AddrWrite(sq), DataWrite(SortedBytes(sless, IF readOk THEN stext ELSE <<>>))>>
  /\ sfail' = SortFailed(addrWOk, dataWOk)
  /\ stext' = SortWritten(stext, SortedBytes(sless, IF readOk THEN stext ELSE <<>>), addrWOk, dataWOk)
  /\ sq' = IF addrWOk /\ dataWOk THEN <<sq[1], sq[1] + Len(stext')>> ELSE sq
  /\ UNCHANGED sless

\* func (w *Win) Sort(less func(x, y string) bool) error. addrOk: ReadAddr
\* succeeds; readOk: ReadAll("xdata") succeeds; addrWOk: the write to addr
\* succeeds; dataWOk: the write to data succeeds. The results of w.Addr and
\* w.Write are dropped: both writes are made and nil is returned.
Sort(addrOk, readOk, addrWOk, dataWOk) ==
  /\ Len(stext) <= MaxRange
  /\ sdata' = stext
  /\ sret' = IF ~addrOk THEN "error of ReadAddr" ELSE IF ~readOk THEN "error of ReadAll" ELSE "nil"
  /\ swrites' = IF addrOk /\ readOk
                  THEN <<AddrWrite(sq), DataWrite(SortedBytes(sless, stext))>>
                  ELSE <<>>
  /\ sfail' = IF addrOk /\ readOk THEN SortFailed(addrWOk, dataWOk) ELSE {}
  /\ stext' = IF addrOk /\ readOk
                THEN SortWritten(stext, SortedBytes(sless, stext), addrWOk, dataWOk)
                ELSE stext
  /\ sq' = IF addrOk /\ readOk /\ addrWOk /\ dataWOk THEN <<sq[1], sq[1] + Len(stext')>> ELSE sq
  /\ UNCHANGED sless

\* ------------------------------------------------------------------ files of a Win
MaxOpens == 4
MaxCloses == 2

\* The names of the switch in fid.
FileNames == {"addr", "body", "ctl", "data", "event", "tag", "xdata", "errors"}

\* Files of an acme window directory that the switch does not have.
OtherNames == {"rdsel", "editout"}

\* fid, mode: os.O_RDWR, and os.O_WRONLY for errors.
FileMode(name) == IF name = "errors" THEN "O_WRONLY" ELSE "O_RDWR"

NoCall == [kind |-> "none", name |-> "", h |-> 0, err |-> "", opened |-> <<>>]

\* The Win as Open returns it: w.ctl is the handle Open was given or opened,
\* every other file field is nil.
FidInit ==
  /\ fh = [n \in FileNames |-> IF n = "ctl" THEN 1 ELSE 0]
  /\ febuf = 0
  /\ fgen = 1
  /\ fcount = [n \in FileNames |-> IF n = "ctl" THEN 1 ELSE 0]
  /\ fclosed = 0
  /\ fret = NoCall

\* fid opening the file at every call.
FidOpensEveryTime(name) == TRUE

\* fid, `if *f == nil`
FidOpens(name) == fh[name] = 0

\* func (w *Win) fid(name string) (*os.File, error); ok is whether os.OpenFile
\* succeeds. A handle is the number of the open that made it.
Fid(name, ok) ==
  /\ IF name \notin FileNames
       THEN /\ fret' = [kind |-> "fid", name |-> name, h |-> 0,
                        err |-> "unknown acme file: " \o name, opened |-> <<>>]
            /\ UNCHANGED <<fh, fgen, fcount>>
       ELSE IF FidOpens(name)
         THEN /\ fgen < MaxOpens
              /\ IF ok
                   THEN /\ fgen' = fgen + 1
                        /\ fh' = [fh EXCEPT ![name] = fgen + 1]
                        /\ fcount' = [fcount EXCEPT ![name] = @ + 1]
                        /\ fret' = [kind |-> "fid", name |-> name, h |-> fgen + 1, err |-> "",
                                    opened |-> <<[name |-> name, mode |-> FileMode(name)]>>]
                   ELSE /\ fh' = [fh EXCEPT ![name] = 0]
                        /\ fret' = [kind |-> "fid", name |-> name, h |-> 0, err |-> "error of OpenFile",
                                    opened |-> <<[name |-> name, mode |-> FileMode(name)]>>]
                        /\ UNCHANGED <<fgen, fcount>>
         ELSE /\ fret' = [kind |-> "fid", name |-> name, h |-> fh[name], err |-> "", opened |-> <<>>]
              /\ UNCHANGED <<fh, fgen, fcount>>
  /\ UNCHANGED <<febuf, fclosed>>

\* gete, `if w.ebuf == nil { w.ebuf = bufio.NewReader(w.event) }`, in a
\* ReadEvent call that is past its fid("event").
FidGete ==
  /\ fh["event"] # 0
  /\ febuf = 0
  /\ febuf' = fh["event"]
  /\ fret' = [kind |-> "gete", name |-> "event", h |-> fh["event"], err |-> "", opened |-> <<>>]
  /\ UNCHANGED <<fh, fgen, fcount, fclosed>>

\* func (w *Win) CloseFiles()
CloseFiles ==
  /\ fclosed < MaxCloses
  /\ fh' = [n \in FileNames |-> 0]
  /\ febuf' = 0
  /\ fcount' = [n \in FileNames |-> 0]
  /\ fclosed' = fclosed + 1
  /\ fret' = [kind |-> "CloseFiles", name |-> "", h |-> 0, err |-> "", opened |-> <<>>]
  /\ UNCHANGED fgen

\* ------------------------------------------------------------------ Del and Err
MaxErrWins == 2

\* Del, cmd
DelCmdSure(sure) == "delete"

DelCmd(sure) == IF sure THEN "delete" ELSE "del"

\* Del not called.
DelIdle ==
  /\ dsure = FALSE
  /\ dwrites = <<>>
  /\ derr = FALSE

\* func (w *Win) Del(sure bool) error; ok is whether the ctl write succeeds.
Del(w, sure, ok) ==
  /\ ~exited
  /\ lastCtl' = IF ok THEN [lastCtl EXCEPT ![w] = DelCmd(sure)] ELSE lastCtl
  /\ dsure' = sure
  /\ dwrites' = <<DelCmd(sure)>>
  /\ derr' = ~ok
  /\ op' = [kind |-> "Del", arg |-> w, res |-> 0]
  /\ UNCHANGED <<windows, last, next, prev, nwin, wname, autoExit, exited, live>>

\* path.Split: the index of the last slash of src, 0 if it has none.
RECURSIVE LastSlash(_, _)
LastSlash(src, i) ==
  IF i = 0 THEN 0 ELSE IF src[i] = "/" THEN i ELSE LastSlash(src, i - 1)

RECURSIVE Str(_)
Str(chars) == IF chars = <<>> THEN "" ELSE chars[1] \o Str(Tail(chars))

\* Err, name: the directory of src, less a prefix "/" or ".", and "+Errors".
ErrName(src) ==
  LET prefix == SubSeq(src, 1, LastSlash(src, Len(src))) IN
  IF prefix = <<"/">> \/ prefix = <<".">> THEN "+Errors" ELSE Str(prefix) \o "+Errors"

\* Err, msg with a final newline.
ErrMsg(msg) ==
  IF msg # <<>> /\ msg[Len(msg)] = "\n" THEN msg ELSE Append(msg, "\n")

Srcs == {<<"/", "f">>, <<"d", "/", "f">>}
Msgs == {<<"m">>, <<"m", "\n">>}

\* The list as a value: head, tail and links.
Registry == [windows |-> windows, last |-> last, next |-> next, prev |-> prev]

\* dropLocked on a list value.
DropLockedOf(r, w) ==
  IF r.prev[w] = 0 /\ r.next[w] = 0 /\ r.windows # w THEN r
  ELSE [windows |-> IF r.prev[w] # 0 THEN r.windows ELSE r.next[w],
        last |-> IF r.next[w] # 0 THEN r.last ELSE r.prev[w],
        next |-> IF r.prev[w] # 0 THEN [r.next EXCEPT ![r.prev[w]] = r.next[w], ![w] = 0]
                                  ELSE [r.next EXCEPT ![w] = 0],
        prev |-> IF r.next[w] # 0 THEN [r.prev EXCEPT ![r.next[w]] = r.prev[w], ![w] = 0]
                                  ELSE [r.prev EXCEPT ![w] = 0]]

\* The linking of Open on a list value.
LinkOf(r, w) ==
  [windows |-> IF r.last # 0 THEN r.windows ELSE w,
   last |-> w,
   next |-> IF r.last # 0 THEN [(r.next @@ (w :> 0)) EXCEPT ![r.last] = w]
                          ELSE r.next @@ (w :> 0),
   prev |-> r.prev @@ (w :> r.last)]

\* Err giving up after one New.
ErrAttemptsOnce(new1Ok, new2Ok) == <<new1Ok>>

\* Err, the calls of New: a second one, after the sleep, when the first failed.
ErrAttempts(new1Ok, new2Ok) == IF new1Ok THEN <<TRUE>> ELSE <<FALSE, new2Ok>>

\* The six writes of Err to its window.
ErrWrites(w, msg) ==
  << [win |-> w, file |-> "addr", bytes |-> <<"$">>],
     [win |-> w, file |-> "ctl", bytes |-> <<"dot=addr", "\n">>],
     [win |-> w, file |-> "body", bytes |-> ErrMsg(msg)],
     [win |-> w, file |-> "addr", bytes |-> <<".", ",">>],
     [win |-> w, file |-> "ctl", bytes |-> <<"dot=addr", "\n">>],
     [win |-> w, file |-> "ctl", bytes |-> <<"show", "\n">>] >>

\* Which of the three ctl writes of Err succeed: all, none, all but the last.
CtlOutcomes == {<<TRUE, TRUE, TRUE>>, <<FALSE, FALSE, FALSE>>, <<TRUE, TRUE, FALSE>>}

\* The last ctl command written to the window of Err: before is the one
\* written before the six writes.
ErrLastCtl(before, ctlOk) ==
  IF ctlOk[3] THEN "show" ELSE IF ctlOk[1] \/ ctlOk[2] THEN "dot=addr" ELSE before

ErrIdle ==
  /\ eshow = "none"
  /\ enew = <<>>
  /\ efatal = FALSE
  /\ ewrites = <<>>

\* func Err(src, msg string), run to completion. showOk: the ctl write of
\* Show succeeds; new1Ok, new2Ok: the calls of New succeed; nameOk: the ctl
\* write of Name succeeds; ctlOk: the ctl writes that follow succeed.
Err(src, msg, showOk, new1Ok, new2Ok, nameOk, ctlOk) ==
  \E name \in {ErrName(src)} : \E found \in {FirstNamed(windows, name, nwin)} :
  LET shown == found # 0 /\ showOk
      r1 == IF found # 0 /\ ~showOk THEN DropLockedOf(Registry, found) ELSE Registry
      autoExited == found # 0 /\ ~showOk /\ autoExit /\ r1.windows = 0
      news == IF shown \/ autoExited THEN <<>> ELSE ErrAttempts(new1Ok, new2Ok)
      created == news # <<>> /\ news[Len(news)]
      fatal == news # <<>> /\ ~news[Len(news)]
      w1 == IF shown THEN found ELSE IF created THEN nwin + 1 ELSE 0
      r2 == IF created THEN LinkOf(r1, nwin + 1) ELSE r1
      before == IF shown THEN "show" ELSE IF nameOk THEN "name" ELSE ""
  IN
  /\ ~exited
  /\ created => nwin < MaxErrWins
  /\ windows' = r2.windows
  /\ last' = r2.last
  /\ next' = r2.next
  /\ prev' = r2.prev
  /\ nwin' = IF created THEN nwin + 1 ELSE nwin
  /\ live' = IF created THEN live \cup {nwin + 1}
             ELSE IF found # 0 /\ ~showOk THEN live \ {found} ELSE live
  /\ wname' = IF created THEN wname @@ ((nwin + 1) :> (IF nameOk THEN name ELSE "")) ELSE wname
  /\ lastCtl' = IF created THEN lastCtl @@ ((nwin + 1) :> ErrLastCtl(before, ctlOk))
                ELSE IF shown THEN [lastCtl EXCEPT ![found] = ErrLastCtl(before, ctlOk)]
                ELSE lastCtl
  /\ exited' = (autoExited \/ fatal)
  /\ eshow' = IF found = 0 THEN "none" ELSE IF showOk THEN "shown" ELSE "failed"
  /\ enew' = news
  /\ efatal' = fatal
  /\ ewrites' = IF w1 # 0 THEN ErrWrites(w1, msg) ELSE <<>>
  /\ op' = [kind |-> "Err", arg |-> name, res |-> w1]
  /\ UNCHANGED autoExit

AppIdle == LoopIdle /\ BlinkIdle /\ SortIdle /\ FidInit /\ ErrIdle /\ DelIdle

\* ------------------------------------------------------------------ Spec
\* The registry, its operations called one at a time.
Init == RegInit /\ EvInit /\ ConcInit /\ CodecIdle /\ AppIdle

Next ==
  \/ \E b \in BOOLEAN : AutoExit(b) /\ UNCHANGED <<evVars, concVars, codecVars, appVars>>
  \/ \E ok \in BOOLEAN : nwin < MaxWins /\ OpenLink(ok) /\ UNCHANGED <<evVars, concVars, codecVars, appVars>>
  \/ \E w \in Allocated : Drop(w) /\ UNCHANGED <<evVars, concVars, codecVars, appVars>>
  \/ \E n \in Names \cup {""}, ok \in BOOLEAN : Show(n, ok) /\ UNCHANGED <<evVars, concVars, codecVars, appVars>>
  \/ \E w \in Allocated, n \in Names, ok \in BOOLEAN : Name(w, n, ok) /\ UNCHANGED <<evVars, concVars, codecVars, appVars>>
  \/ \E ws \in SUBSET Allocated : DeleteAll(ws) /\ UNCHANGED <<evVars, concVars, codecVars, appVars>>

Spec == Init /\ [][Next]_vars

\* ------------------------------------------------------------------ SpecEvents
\* Event delivery: windows are opened, subscribed to with EventChan (called
\* from one goroutine), each task reads and sends, one consumer receives; a
\* window leaves the registry by its task's drop or by a failed Show.
EvNext ==
  \/ \E b \in BOOLEAN : AutoExit(b) /\ UNCHANGED <<evVars, concVars, codecVars, appVars>>
  \/ nwin < MaxEvWins /\ OpenLink(TRUE) /\ UNCHANGED <<evVars, concVars, codecVars, appVars>>
  \/ \E ok \in BOOLEAN : Show("", ok) /\ UNCHANGED <<evVars, concVars, codecVars, appVars>>
  \/ \E w \in Allocated : EventChan(w) /\ UNCHANGED <<concVars, codecVars, appVars>>
  \/ \E w \in Allocated, ok \in BOOLEAN : ReaderRead(w, ok) /\ UNCHANGED <<concVars, codecVars, appVars>>
  \/ \E w \in Allocated : Recv(w) /\ UNCHANGED <<concVars, codecVars, appVars>>
  \/ \E w \in Allocated : ReaderDrop(w) /\ UNCHANGED <<concVars, codecVars, appVars>>
  \/ \E w \in Allocated : ReaderClose(w) /\ UNCHANGED <<concVars, codecVars, appVars>>

SpecEvents == Init /\ [][EvNext]_vars

\* ------------------------------------------------------------------ SpecTeardown
\* The consumer's receive from w.c with the rest left alone.
ConsumerRecv(w) == Recv(w) /\ UNCHANGED <<concVars, codecVars, appVars>>

\* The steps of eventReader behind its loop, which no other goroutine
\* has to allow: w.drop() and close(w.c).
ReaderTeardown(w) ==
  (ReaderDrop(w) \/ ReaderClose(w)) /\ UNCHANGED <<concVars, codecVars, appVars>>

\* The windows of a program that opens them, starts their event tasks and
\* receives from their channels; a window leaves the registry by its task's
\* drop only.
TeardownNext ==
  \/ \E b \in BOOLEAN : AutoExit(b) /\ UNCHANGED <<evVars, concVars, codecVars, appVars>>
  \/ nwin < MaxEvWins /\ OpenLink(TRUE) /\ UNCHANGED <<evVars, concVars, codecVars, appVars>>
  \/ \E w \in Allocated : EventChan(w) /\ UNCHANGED <<concVars, codecVars, appVars>>
  \/ \E w \in Allocated, ok \in BOOLEAN : ReaderRead(w, ok) /\ UNCHANGED <<concVars, codecVars, appVars>>
  \/ \E w \in Allocated : ConsumerRecv(w)
  \/ \E w \in Allocated : ReaderTeardown(w)

\* A consumer that keeps receiving from every channel and a scheduler that
\* keeps running every eventReader goroutine that can run.
SpecTeardown ==
  /\ Init /\ [][TeardownNext]_vars
  /\ \A w \in EvWins : WF_vars(ConsumerRecv(w))
  /\ \A w \in EvWins : WF_vars(ReaderTeardown(w))

\* ------------------------------------------------------------------ SpecConc
ConcNext ==
  \/ \E g \in Procs : COpenAlloc(g) /\ UNCHANGED <<codecVars, appVars>>
  \/ \E g \in Procs : COpenLink(g) /\ UNCHANGED <<codecVars, appVars>>
  \/ \E g \in Procs : COpenLast(g) /\ UNCHANGED <<codecVars, appVars>>
  \/ \E g \in Procs, w \in Allocated : CDropLock(g, w) /\ UNCHANGED <<codecVars, appVars>>
  \/ \E g \in Procs : CDropBody(g) /\ UNCHANGED <<codecVars, appVars>>
  \/ \E g \in Procs, b \in BOOLEAN : CAutoExit(g, b) /\ UNCHANGED <<codecVars, appVars>>
  \/ \E g \in Procs : CShowLock(g) /\ UNCHANGED <<codecVars, appVars>>
  \/ \E g \in Procs, ok \in BOOLEAN : CShowWrite(g, ok) /\ UNCHANGED <<codecVars, appVars>>
  \/ \E g \in Procs : CShowRet(g) /\ UNCHANGED <<codecVars, appVars>>
  \/ \E g \in Procs : CDeleteAllStart(g) /\ UNCHANGED <<codecVars, appVars>>
  \/ \E g \in Procs, ok \in BOOLEAN : CDeleteAllWrite(g, ok) /\ UNCHANGED <<codecVars, appVars>>
  \/ \E g \in Procs, w \in Allocated : CEventChanCheck(g, w) /\ UNCHANGED <<codecVars, appVars>>
  \/ \E g \in Procs : CEventChanMake(g) /\ UNCHANGED <<codecVars, appVars>>
  \/ \E g \in Procs : CEventChanGo(g) /\ UNCHANGED <<codecVars, appVars>>

SpecConc == Init /\ [][ConcNext]_vars

\* ------------------------------------------------------------------ SpecCodec
\* The codec on an event file: ReadEvent calls, a WriteEvent of the Event read,
\* and a ReadEvent of what WriteEvent wrote.
InitCodec == RegInit /\ EvInit /\ ConcInit /\ CodecInit /\ AppIdle

CodecNext ==
  \/ \E fidOk \in BOOLEAN : CReadEvent(fidOk) /\ UNCHANGED <<regVars, evVars, concVars, appVars>>
  \/ CWriteEvent /\ UNCHANGED <<regVars, evVars, concVars, appVars>>
  \/ CLoopback /\ UNCHANGED <<regVars, evVars, concVars, appVars>>

SpecCodec == InitCodec /\ [][CodecNext]_vars

\* ------------------------------------------------------------------ SpecDecode
\* ReadEvent calls on event files that may be damaged.
InitDecode == RegInit /\ EvInit /\ ConcInit /\ DecodeInit /\ AppIdle

DecodeNext ==
  \E fidOk \in BOOLEAN : CReadEvent(fidOk) /\ UNCHANGED <<regVars, evVars, concVars, appVars>>

SpecDecode == InitDecode /\ [][DecodeNext]_vars

\* ------------------------------------------------------------------ SpecLoop
\* EventLoop with a handler, taking Events one at a time.
InitLoop == RegInit /\ EvInit /\ ConcInit /\ CodecIdle /\ LoopInit /\ BlinkIdle /\ SortIdle /\ FidInit /\ ErrIdle /\ DelIdle

LoopNext ==
  \/ \E e \in LoopEvents, ret \in BOOLEAN, cbErr \in BOOLEAN :
       LoopExecute(e, ret, cbErr) /\ UNCHANGED <<lpc, lwin, lseen, baseVars, blinkVars, sortVars>>
  \/ \E e \in LoopEvents, ret \in BOOLEAN, addrOk \in BOOLEAN, readOk \in BOOLEAN :
       LoopLook(e, ret, addrOk, readOk) /\ UNCHANGED <<lpc, lwin, lseen, baseVars, blinkVars, sortVars>>
  \/ \E e \in LoopEvents : LoopOther(e) /\ UNCHANGED <<lpc, lwin, lseen, baseVars, blinkVars, sortVars>>

SpecLoop == InitLoop /\ [][LoopNext]_vars

\* ------------------------------------------------------------------ SpecRange
\* EventLoop on one window of the registry, with the window's eventReader.
InitRange ==
  /\ RegInit /\ EvInit /\ ConcInit /\ CodecIdle /\ LoopInit
  /\ BlinkIdle /\ SortIdle /\ FidInit /\ ErrIdle /\ DelIdle
  /\ hmeth \in {(ExecuteVerb :> ExecuteSig),
                (ExecuteVerb :> ExecuteSig) @@ (<<"F">> :> Sig(1, "string", 1, "error"))}
  /\ laddr = <<0, 0>>

RestOfRange == <<concVars, codecVars, blinkVars, sortVars, fidVars, errVars, delVars>>

LoopStep ==
  \/ \E e \in RangeEvents \cup {ZeroEvent} : LoopRecv(e) /\ UNCHANGED RestOfRange
  \/ \E ret \in BOOLEAN, cbErr \in BOOLEAN, addrOk \in BOOLEAN, readOk \in BOOLEAN :
       LoopBody(ret, cbErr, addrOk, readOk) /\ UNCHANGED RestOfRange
  \/ LoopReturn /\ UNCHANGED RestOfRange

RangeNext ==
  \/ \E b \in BOOLEAN : AutoExit(b) /\ UNCHANGED <<evVars, concVars, codecVars, appVars>>
  \/ nwin < MaxEvWins /\ OpenLink(TRUE) /\ UNCHANGED <<evVars, concVars, codecVars, appVars>>
  \/ \E w \in Allocated : LoopStart(w) /\ UNCHANGED RestOfRange
  \/ \E w \in Allocated, ok \in BOOLEAN : ReaderRead(w, ok) /\ UNCHANGED <<concVars, codecVars, appVars>>
  \/ \E w \in Allocated : ReaderTeardown(w)
  \/ LoopStep

\* The goroutine of EventLoop and that of eventReader keep running while they
\* can; the handler's methods return.
SpecRange ==
  /\ InitRange /\ [][RangeNext]_vars
  /\ WF_vars(LoopStep)
  /\ \A w \in EvWins : WF_vars(ReaderTeardown(w))

\* ------------------------------------------------------------------ SpecBlink
\* Blink, its goroutine, the ticker, and the calls of stop made one after the
\* other.
InitBlink == Init

BlinkNext ==
  \/ Blink /\ UNCHANGED <<baseVars, loopVars, sortVars>>
  \/ TimerTick /\ UNCHANGED <<baseVars, loopVars, sortVars>>
  \/ BlinkTick /\ UNCHANGED <<baseVars, loopVars, sortVars>>
  \/ BlinkTickWrite /\ UNCHANGED <<baseVars, loopVars, sortVars>>
  \/ StopCall /\ UNCHANGED <<baseVars, loopVars, sortVars>>
  \/ BlinkStopRecv /\ UNCHANGED <<baseVars, loopVars, sortVars>>
  \/ BlinkStopWrite /\ UNCHANGED <<baseVars, loopVars, sortVars>>
  \/ BlinkAck /\ UNCHANGED <<baseVars, loopVars, sortVars>>

SpecBlink == InitBlink /\ [][BlinkNext]_vars

\* The steps of the goroutine that wait for nothing but w.Ctl to return, and
\* its last send, which the caller of stop is waiting for.
BlinkTask ==
  (BlinkTickWrite \/ BlinkStopWrite \/ BlinkAck) /\ UNCHANGED <<baseVars, loopVars, sortVars>>

\* SpecBlink where the writes to ctl return and the goroutine keeps running;
\* its select, which chooses at random among the cases that are ready, takes
\* a send on c that stays or keeps coming back ready.
SpecBlinkFair ==
  /\ SpecBlink
  /\ WF_vars(BlinkTask)
  /\ SF_vars(BlinkStopRecv /\ UNCHANGED <<baseVars, loopVars, sortVars>>)

\* ------------------------------------------------------------------ SpecSort
\* Sort called on a window, any number of times.
InitSort == RegInit /\ EvInit /\ ConcInit /\ CodecIdle /\ LoopIdle /\ BlinkIdle /\ SortInit /\ FidInit /\ ErrIdle /\ DelIdle

SortNext ==
  \E addrOk \in BOOLEAN, readOk \in BOOLEAN, addrWOk \in BOOLEAN, dataWOk \in BOOLEAN :
    Sort(addrOk, readOk, addrWOk, dataWOk) /\ UNCHANGED <<baseVars, loopVars, blinkVars>>

SpecSort == InitSort /\ [][SortNext]_vars

\* ------------------------------------------------------------------ SpecFid
\* The file fields of one Win: fid, through the operations that call it, and
\* CloseFiles, called one at a time.
FidNext ==
  \/ \E n \in FileNames \cup OtherNames, ok \in BOOLEAN :
       Fid(n, ok) /\ UNCHANGED <<regVars, evVars, concVars, codecVars, errVars, delVars, loopVars, blinkVars, sortVars>>
  \/ FidGete /\ UNCHANGED <<regVars, evVars, concVars, codecVars, errVars, delVars, loopVars, blinkVars, sortVars>>
  \/ CloseFiles /\ UNCHANGED <<regVars, evVars, concVars, codecVars, errVars, delVars, loopVars, blinkVars, sortVars>>

SpecFid == Init /\ [][FidNext]_vars

\* ------------------------------------------------------------------ SpecDel
\* New and Del, called one at a time, on windows that acme may delete.
DelNext ==
  \/ \E ok \in BOOLEAN : nwin < MaxWins /\ OpenLink(ok) /\ UNCHANGED <<evVars, concVars, codecVars, appVars>>
  \/ \E w \in Allocated, sure \in BOOLEAN, ok \in BOOLEAN :
       Del(w, sure, ok)
         /\ UNCHANGED <<evVars, concVars, codecVars, loopVars, blinkVars, sortVars, fidVars, errVars>>
  \/ \E w \in Allocated : Drop(w) /\ UNCHANGED <<evVars, concVars, codecVars, appVars>>

SpecDel == Init /\ [][DelNext]_vars

\* ------------------------------------------------------------------ SpecErr
\* Err called any number of times, one call at a time.
ErrNext ==
  \/ \E b \in BOOLEAN : AutoExit(b) /\ UNCHANGED <<evVars, concVars, codecVars, appVars>>
  \/ \E src \in Srcs, msg \in Msgs, showOk \in BOOLEAN, new1Ok \in BOOLEAN, new2Ok \in BOOLEAN,
        nameOk \in BOOLEAN, ctlOk \in CtlOutcomes :
       Err(src, msg, showOk, new1Ok, new2Ok, nameOk, ctlOk)
         /\ UNCHANGED <<evVars, concVars, codecVars, loopVars, blinkVars, sortVars, fidVars, delVars>>

SpecErr == Init /\ [][ErrNext]_vars

\* ------------------------------------------------------------------ claims, registry

\* C6: the registry is empty (head and tail both nil) exactly when every window
\* inserted has been removed, so inserting N windows and dropping them in any
\* order empties it at the last removal and not before; and a drop of a window
\* that is already removed leaves head, tail and all links as they were.
C6_InsertThenRemoveAll ==
  /\ []((live = {}) <=> (windows = 0 /\ last = 0))
  /\ []((live # {}) <=> (windows # 0 /\ last # 0))
  /\ [][(op'.kind = "drop" /\ op'.arg \notin live)
          => UNCHANGED <<windows, last, next, prev>>]_vars

\* C6 witness: MaxWins windows were inserted, all have been dropped, the last
\* step being a drop, and the registry is empty.
C6_Witness ==
  /\ nwin = MaxWins
  /\ live = {}
  /\ op.kind = "drop"
  /\ windows = 0 /\ last = 0

\* C7: a step ends the process (os.Exit) exactly when it is a removal (by drop
\* or by a failed Show) of a window that was on the list, the list is empty
\* after it, and autoExit is set; no other step exits: not AutoExit(true) on
\* an empty registry, not the removal of a window already removed.
C7_AutoExitExactly ==
  [][exited' <=> /\ op'.kind \in {"drop", "ShowFail"}
                 /\ op'.arg \in Members
                 /\ Members' = {}
                 /\ autoExit]_vars

\* C7 witness: the process has exited on the removal of the last of several
\* windows.
C7_Witness ==
  /\ exited
  /\ nwin >= 2
  /\ op.kind \in {"drop", "ShowFail"}

\* ------------------------------------------------------------------ claims, event delivery

\* What the consumer has received on w's channel, the empty Event left out.
RealReceived(w) == SelectSeq(received[w], LAMBDA e : e # 0)

TeardownSteps == <<"sentinel", "drop", "close">>

\* C2: after ReadEvent fails, what the task does is a prefix of: the empty
\* Event is received, drop, close; the task then ends. The consumer receives
\* at most one empty Event and nothing after it; the task's drop comes after
\* that receipt and before the close, so a closed channel means a window that
\* has left the registry and a consumer that has the empty Event.
C2_TeardownOrder ==
  \A w \in EvWins :
    LET n == Len(rlog[w]) IN
    /\ n <= 3
    /\ rlog[w] = SubSeq(TeardownSteps, 1, n)
    /\ \A i \in 1..Len(received[w]) : received[w][i] = 0 => i = Len(received[w])
    /\ (n >= 1) <=> (Len(received[w]) > 0 /\ received[w][Len(received[w])] = 0)
    /\ (n >= 1) => rpc[w] \in {"drop", "close", "done"}
    /\ (rpc[w] = "drop") <=> (n = 1)
    /\ (rpc[w] = "close") <=> (n = 2)
    /\ (rpc[w] = "done") <=> (n = 3)
    /\ closed[w] <=> (n = 3)
    /\ closed[w] => w \notin live

\* C2 witness: a task has delivered an event, then failed, and has finished
\* its teardown.
C2_Witness ==
  \E w \in EvWins :
    /\ rpc[w] = "done"
    /\ closed[w]
    /\ Len(decoded[w]) >= 1
    /\ received[w] = Append(decoded[w], 0)

\* C3: what the consumer has received of a window's events is a prefix of what
\* its task has decoded, in the same order, and at most one decoded event is
\* not yet received, which is then the one the task is blocked sending.
C3_OneInFlight ==
  \A w \in EvWins :
    LET real == RealReceived(w)
        d == decoded[w] IN
    /\ Len(real) <= Len(d)
    /\ real = SubSeq(d, 1, Len(real))
    /\ Len(d) - Len(real) <= 1
    /\ (Len(d) - Len(real) = 1) <=> (rpc[w] = "send" /\ held[w] = d[Len(d)])

\* C3 witness: MaxEvents events were decoded and all received, in order, with a
\* second window's task blocked sending meanwhile.
C3_Witness ==
  \E w, x \in EvWins :
    /\ w # x
    /\ Len(decoded[w]) = MaxEvents
    /\ RealReceived(w) = decoded[w]
    /\ rpc[x] = "send"

\* ------------------------------------------------------------------ claims, concurrent callers

\* C1: for every Win, all EventChan calls so far have returned one and the same
\* channel, and at most one eventReader task has been started for it.
C1_OneChannelOneReader ==
  \A w \in EvWins :
    /\ Cardinality(returned[w]) <= 1
    /\ readers[w] <= 1

\* A goroutine at one of these statements is about to read or write the list
\* head, the tail or a Win's links.
RegistryAccess == {"open_link", "open_last", "drop_locked", "delall_write"}

\* The list holds exactly the windows that are registered: every Win that Open
\* has returned and that was not removed is reachable from the head, and every
\* Win reachable from the head is one of these or is being linked by an Open
\* still running.
RegistryIntact ==
  /\ \A w \in live : w \in Members
  /\ \A w \in Members : w \in live \/ w \notin Opened

\* C4: a goroutine reads or writes the head, the tail or the links only with
\* windowsMu held, so no two goroutines are at such a statement at once; and
\* the list is never left corrupted.
C4_RegistryUnderLock ==
  /\ \A g \in Procs : pc[g] \in RegistryAccess => windowsMu = g
  /\ \A g, h \in Procs : (g # h /\ pc[g] \in RegistryAccess) => pc[h] \notin RegistryAccess
  /\ RegistryIntact

\* A goroutine at one of these statements is in a write to a window's ctl file.
InFileIO == {"show_write", "delall_write"}

\* C5: a goroutine that is in a window file write does not hold windowsMu.
C5_NoLockAcrossIO ==
  \A g \in Procs : pc[g] \in InFileIO => windowsMu # g

\* ------------------------------------------------------------------ claims, codec

\* The last ReadEvent call read the event file from record start of recs, and
\* its w.fid("event") did not fail.
ReadFromHost ==
  /\ phase = "host"
  /\ nreads >= 1
  /\ res.err # "open"
  /\ start <= Len(recs)

\* The last ReadEvent call met a primary record with an empty selection and
\* the expansion bit, followed by a second record.
ExpansionCase ==
  /\ ReadFromHost
  /\ start + 1 <= Len(recs)
  /\ recs[start].Q0 = recs[start].Q1
  /\ HasBit(recs[start].Flag, 2)

\* The first four fields of the bytes written back, read as gete reads them.
WrittenPrefix == ReadNumber(ReadNumber(ReadRune(ReadRune(GeteStart(wbuf)))))

\* C8 as stated: ReadEvent on the bytes WriteEvent produced for an Event with
\* the expansion and chorded bits unset succeeds and yields an Event with the
\* same C1, C2, Q0 and Q1.
C8_RoundTrip ==
  (phase = "readback" /\ res.err # "open" /\ ~HasBit(wev.Flag, 2) /\ ~HasBit(wev.Flag, 8))
    => /\ ~res.isnil
       /\ res.e.C1 = wev.C1
       /\ res.e.C2 = wev.C2
       /\ res.e.Q0 = wev.Q0
       /\ res.e.Q1 = wev.Q1

\* C8: the bytes WriteEvent produces for an Event hold its first four fields
\* only: read as gete reads them (getec, getec, geten, geten) they give the
\* Event's C1, C2, Q0 and Q1 and leave the newline; ReadEvent on these bytes
\* fails, with "malformed acme event: event number syntax" and a nil Event,
\* because the Flag and Nr fields are not there.
C8_WriteBackPrefix ==
  /\ phase \in {"written", "looped", "readback"}
       => /\ WrittenPrefix.panic = ""
          /\ WrittenPrefix.f = <<wev.C1, wev.C2, wev.Q0, wev.Q1>>
          /\ WrittenPrefix.rest = <<"\n">>
  /\ (phase = "readback" /\ res.err # "open")
       => /\ res.isnil
          /\ res.err = "malformed acme event: event number syntax"

\* C8 witness: an Event with neither bit set and a two-digit Q1 was written
\* back, and ReadEvent on the bytes has failed.
C8_Witness ==
  /\ phase = "readback"
  /\ res.isnil
  /\ res.err = "malformed acme event: event number syntax"
  /\ ~HasBit(wev.Flag, 2)
  /\ ~HasBit(wev.Flag, 8)
  /\ wev.Q0 = 7
  /\ wev.Q1 = MaxQ
  /\ wbuf = <<wev.C1, wev.C2>> \o Itoa(7) \o <<" ">> \o Itoa(MaxQ) \o <<" ", "\n">>

\* C9: when the primary record has Q0 = Q1 and the expansion bit set, the
\* Event ReadEvent returns has the second record's Q0 and Q1, and the primary
\* record's Q0 and Q1 as OrigQ0 and OrigQ1.
C9_Expansion ==
  (ExpansionCase /\ ~res.isnil)
    => /\ res.e.Q0 = recs[start + 1].Q0
       /\ res.e.Q1 = recs[start + 1].Q1
       /\ res.e.OrigQ0 = recs[start].Q0
       /\ res.e.OrigQ1 = recs[start].Q1

\* C9 witness: a primary record at 7,7 was expanded to a second record's range
\* 3 to 10 + MaxQ.
C9_Witness ==
  /\ ExpansionCase
  /\ ~res.isnil
  /\ recs[start].Q0 = 7
  /\ res.e.Q0 = 3
  /\ res.e.Q1 = 10 + MaxQ
  /\ res.e.OrigQ0 = 7
  /\ res.e.OrigQ1 = 7

\* C10 as stated: in the expansion case the returned Event's Flag is the
\* second record's Flag, and that flag decides whether the two chorded records
\* are read: four records read with its bit 8, two without.
C10_SecondRecordFlag ==
  (ExpansionCase /\ ~res.isnil)
    => /\ res.e.Flag = recs[start + 1].Flag
       /\ res.nrec = IF HasBit(recs[start + 1].Flag, 8) THEN 4 ELSE 2

\* C10: in the expansion case the returned Event has the second record's range
\* and text and the primary record's Flag, and it is the primary record's flag
\* that decides whether the two chorded records are read: with its bit 8 set
\* ReadEvent reads four records, sets Arg and Loc from the third and fourth,
\* and fails when they are not there; without it ReadEvent reads two records
\* and succeeds, whatever the second record's Flag.
C10_PrimaryFlagKept ==
  ExpansionCase
    => /\ res.isnil <=> (HasBit(recs[start].Flag, 8) /\ Len(recs) < start + 3)
       /\ ~res.isnil
            => /\ res.e.Flag = recs[start].Flag
               /\ res.e.Text = recs[start + 1].Text
               /\ res.nrec = IF HasBit(recs[start].Flag, 8) THEN 4 ELSE 2
               /\ HasBit(recs[start].Flag, 8)
                    => /\ res.e.Arg = recs[start + 2].Text
                       /\ res.e.Loc = recs[start + 3].Text
               /\ ~HasBit(recs[start].Flag, 8)
                    => /\ res.e.Arg = <<>>
                       /\ res.e.Loc = <<>>

\* C10 witness: the primary record has no bit 8, the second record has it, two
\* more records follow, and ReadEvent returned the primary's Flag after two
\* records, the two that follow left unread.
C10_Witness ==
  /\ ExpansionCase
  /\ ~res.isnil
  /\ ~HasBit(recs[start].Flag, 8)
  /\ HasBit(recs[start + 1].Flag, 8)
  /\ Len(recs) = start + 3
  /\ res.e.Flag = recs[start].Flag
  /\ res.nrec = 2
  /\ ebuf = EncodeRecord(recs[start + 2]) \o EncodeRecord(recs[start + 3])

\* The place in recs of the first of the two chorded records of the last
\* ReadEvent call: after the primary record, and after the expansion record
\* when the primary has the expansion bit.
ChordedAt == start + (IF HasBit(recs[start].Flag, 2) THEN 2 ELSE 1)

\* C11: whenever the Event ReadEvent returns has the chorded bit (8), its Arg
\* is the Text of the first and its Loc the Text of the second of the two
\* records after the primary record and the expansion record (if one was
\* read), with no expansion, with an expansion that replaced the primary, and
\* with one that did not.
C11_Chorded ==
  (ReadFromHost /\ ~res.isnil /\ HasBit(res.e.Flag, 8))
    => /\ HasBit(recs[start].Flag, 8)
       /\ ChordedAt + 1 <= Len(recs)
       /\ res.e.Arg = recs[ChordedAt].Text
       /\ res.e.Loc = recs[ChordedAt + 1].Text
       /\ res.nrec = ChordedAt + 2 - start

\* C11 witness: a primary record with bits 2 and 8 and a selection that is not
\* empty, so that the expansion record was read and dropped, and Arg and Loc
\* from the third and fourth records.
C11_Witness ==
  /\ ReadFromHost
  /\ ~res.isnil
  /\ recs[start].Flag = 10
  /\ recs[start].Q0 < recs[start].Q1
  /\ res.e.Q0 = recs[start].Q0
  /\ res.e.Arg = <<"d">>
  /\ res.e.Loc = <<"e", "f">>

\* C12: every Event ReadEvent returns has Arg and Loc empty when bit 8 of its
\* Flag is unset, and OrigQ0 = Q0 and OrigQ1 = Q1 when bit 2 is unset.
C12_EventInvariants ==
  (phase = "host" /\ nreads >= 1 /\ ~res.isnil)
    => /\ ~HasBit(res.e.Flag, 8) => (res.e.Arg = <<>> /\ res.e.Loc = <<>>)
       /\ ~HasBit(res.e.Flag, 2) => (res.e.OrigQ0 = res.e.Q0 /\ res.e.OrigQ1 = res.e.Q1)

\* C12 witness: an Event with neither bit, a selection of 7 to MaxQ, and more
\* records behind it in the file.
C12_Witness ==
  /\ phase = "host"
  /\ nreads >= 1
  /\ ~res.isnil
  /\ res.e.Flag = 1
  /\ res.e.Q0 = 7
  /\ res.e.Q1 = MaxQ
  /\ res.e.OrigQ0 = 7
  /\ res.e.OrigQ1 = MaxQ
  /\ res.e.Arg = <<>>
  /\ ebuf # <<>>

\* ------------------------------------------------------------------ claims, damaged event files

\* The number of records ReadEvent reads for an event whose primary is record
\* k of recs.
Wanted(k) ==
  1 + (IF HasBit(recs[k].Flag, 2) THEN 1 ELSE 0) + (IF HasBit(recs[k].Flag, 8) THEN 2 ELSE 0)

\* The last ReadEvent call was made on the event file at record start, and its
\* w.fid("event") did not fail.
ReadFromFile ==
  /\ phase = "host"
  /\ nreads >= 1
  /\ res.err # "open"
  /\ start <= Len(recs)

\* The records of recs the last ReadEvent call had to read.
RecordsToRead == {k \in start..(start + Wanted(start) - 1) : k <= Len(recs)}

\* The Nr field of record k, as written in the event file, is above eventSize.
NrExceeds(k) == (fault.kind = "nr" /\ fault.rec = k) \/ recs[k].Nr > eventSize

\* C13: a record whose Nr field is above 256, at any of the up to four places
\* of one event, makes ReadEvent return an error and a nil Event; with all Nr
\* fields at or under 256 (256 included) the records are accepted.
C13_NrLimit ==
  (ReadFromFile /\ fault.kind \in {"none", "nr"})
    => /\ (\E k \in RecordsToRead : NrExceeds(k))
            => (res.isnil /\ res.err # "" /\ ~res.crashed)
       /\ (\A k \in RecordsToRead : ~NrExceeds(k))
            => ~res.isnil

\* The last ReadEvent call met the damage of the event file.
MetFault ==
  /\ ReadFromFile
  /\ fault.kind # "none"
  /\ fault.rec \in start..(start + Wanted(start) - 1)

\* C14: a ReadEvent call that meets a failure while decoding returns an error
\* and a nil Event; no call returns an Event together with an error, and no
\* failure escapes ReadEvent as a panic.
C14_DecodeFailure ==
  (phase = "host" /\ nreads >= 1)
    => /\ ~res.crashed
       /\ res.isnil <=> (res.err # "")
       /\ (MetFault /\ fault.kind \in {"cut", "subst"})
            => /\ res.isnil
               /\ res.err \in {"malformed acme event: EOF",
                               "malformed acme event: event number syntax",
                               "malformed acme event: phase error"}

\* ------------------------------------------------------------------ claims, event loop

Blank(ch) == ch \in {" ", "\t"}

\* The command of the execute event last taken: its text without the white
\* space around it.
LoopCmd == TrimSpace(lev.Text)

\* The verb: the runes of the command before its first blank.
LoopVerb ==
  LET n == CHOOSE k \in 0..Len(LoopCmd) :
             /\ \A i \in 1..k : ~Blank(LoopCmd[i])
             /\ k < Len(LoopCmd) => Blank(LoopCmd[k + 1])
  IN  SubSeq(LoopCmd, 1, n)

\* The rest: what follows the verb and one blank, without the white space
\* around it.
LoopRest == TrimSpace(SubSeq(LoopCmd, Len(LoopVerb) + 2, Len(LoopCmd)))

\* A method of type t cannot be called with the argument rest.
Incompatible(t, rest) ==
  \/ t.nout > 1
  \/ t.nout = 1 /\ t.out0 # "error"
  \/ t.nin > 1
  \/ t.nin = 1 /\ t.in0 # "string"
  \/ t.nin = 0 /\ rest # <<>>

\* The bytes that write lev back to the event file.
WrittenBack == <<lev.C1, lev.C2>> \o Itoa(lev.Q0) \o <<" ">> \o Itoa(lev.Q1) \o <<" ", "\n">>

C16_Mismatch ==
  (lev.C2 \in {"x", "X"} /\ LoopVerb \in DOMAIN hmeth /\ Incompatible(hmeth[LoopVerb], LoopRest))
    => /\ calls = <<>>
       /\ Len(errs) = 1
       /\ errs[1] # "error of the method"
       /\ lwrote = <<>>

\* C16 witness: the command "F a" with a method ExecF() that takes no
\* argument.
C16_Witness ==
  /\ lev.C2 = "X"
  /\ lev.Text = <<"F", " ", "a">>
  /\ <<"F">> \in DOMAIN hmeth
  /\ hmeth[<<"F">>] = Sig(0, "", 0, "")
  /\ calls = <<>>
  /\ errs = <<"takes no arguments">>
  /\ lwrote = <<>>

C18_StopLeavesClean ==
  stopped
    => /\ bwrites # <<>>
       /\ bwrites[Len(bwrites)] = "clean"
       /\ bpc = "done"

\* C18 witness: stop was called while the write of a tick that had set dirty
\* was due; that write came, then the clean of stop, and stop returned.
C18_Witness ==
  /\ stopped
  /\ spc = "returned"
  /\ sflight
  /\ Len(bwrites) >= 2
  /\ bwrites[Len(bwrites) - 1] = "dirty"
  /\ bwrites[Len(bwrites)] = "clean"

\* ------------------------------------------------------------------ claims, Sort

\* The text ends with a newline.
EndsWithNewline(str) == str # <<>> /\ str[Len(str)] = "\n"

\* The lines of a text: the pieces between its newlines, a newline at the end
\* of the text ending the last line.
LinesOf(str) ==
  IF EndsWithNewline(str) THEN Split(SubSeq(str, 1, Len(str) - 1)) ELSE Split(str)

\* The lines rearranged by p.
Rearranged(lines, p) == [i \in 1..Len(lines) |-> lines[p[i]]]

\* p puts lines in stable sorted order: it is a rearrangement after which no
\* line is less than one before it, and lines that compare equal keep their
\* order.
StableSorting(kind, lines, p) ==
  /\ \A i, j \in 1..Len(lines) : i # j => p[i] # p[j]
  /\ \A i, j \in 1..Len(lines) :
       i < j => /\ ~Less(kind, lines[p[j]], lines[p[i]])
                /\ ~Less(kind, lines[p[i]], lines[p[j]]) => p[i] < p[j]

\* C19: a Sort call that returns nil has written #q0,#q1 to addr and then, to
\* data, the lines of the text in stable sorted order joined by newlines, with
\* one newline behind them exactly when the text ended with a newline.
C19_SortedLines ==
  sret = "nil"
    => /\ Len(swrites) = 2
       /\ swrites[1] = AddrWrite(<<sq[1], sq[1] + Len(sdata)>>)
       /\ swrites[2].file = "data"
       /\ \E p \in [1..Len(LinesOf(sdata)) -> 1..Len(LinesOf(sdata))] :
            /\ StableSorting(sless, LinesOf(sdata), p)
            /\ swrites[2].bytes = Join(Rearranged(LinesOf(sdata), p))
                                    \o (IF EndsWithNewline(sdata) THEN <<"\n">> ELSE <<>>)

\* C20: a Sort call that fails to read the address or the text returns that
\* error and writes to no file: the text of the window is as it was.
C20_NoWriteOnReadError ==
  /\ sret \in {"error of ReadAddr", "error of ReadAll"} => (swrites = <<>> /\ stext = sdata)
  /\ sret = "nil" => swrites # <<>>

\* C20 witness: a text of unsorted lines, a Sort call that failed to read it,
\* no write.
C20_Witness ==
  /\ sret = "error of ReadAll"
  /\ sless = "ascending"
  /\ sdata = <<"b", "\n", "a">>
  /\ stext = sdata
  /\ swrites = <<>>

\* C21: a Sort call in which the write to addr or the write to data fails
\* returns an error, and makes no write to data after a failed write to addr.
C21_WriteErrorReturned ==
  sfail # {}
    => /\ sret # "nil"
       /\ "addr" \in sfail => \A i \in 1..Len(swrites) : swrites[i].file # "data"

\* ------------------------------------------------------------------ claims, files of a Win

\* What a fid call on a name of the switch whose field is nil opens: that one
\* file, write-only for errors and read-write for the others.
OpenedFor(n) == <<[name |-> n, mode |-> IF n = "errors" THEN "O_WRONLY" ELSE "O_RDWR"]>>

\* C22: each of the eight names is opened at most once between closes, and its
\* field holds a handle exactly when it has been; a fid call on a name whose
\* field holds a handle returns that handle and opens nothing; a call on a name
\* whose field is nil (so every first call after CloseFiles) opens that file,
\* write-only for errors and read-write otherwise, and returns the new handle;
\* a call on any other name returns an error and opens nothing.
C22_FidMemoized ==
  /\ [](\A n \in FileNames : fcount[n] <= 1 /\ (fh[n] # 0 <=> fcount[n] = 1))
  /\ [][fret'.kind = "CloseFiles" => \A n \in FileNames : fh'[n] = 0]_vars
  /\ [][fret'.kind = "fid" =>
          IF fret'.name \notin FileNames
            THEN /\ fret'.h = 0
                 /\ fret'.err # ""
                 /\ fret'.opened = <<>>
                 /\ fh' = fh
            ELSE /\ fh[fret'.name] # 0
                      => /\ fret'.h = fh[fret'.name]
                         /\ fret'.err = ""
                         /\ fret'.opened = <<>>
                         /\ fh' = fh
                 /\ fh[fret'.name] = 0
                      => /\ fret'.opened = OpenedFor(fret'.name)
                         /\ fret'.err = "" => /\ fret'.h > fgen
                                              /\ fh' = [fh EXCEPT ![fret'.name] = fret'.h]
                         /\ fret'.err # "" => fret'.h = 0 /\ fh' = fh]_vars

\* C22 witness: after a CloseFiles, errors has been opened again and a later
\* fid("errors") has returned that handle without opening anything.
C22_Witness ==
  /\ fclosed = 1
  /\ fgen = 3
  /\ fh["errors"] = 3
  /\ fcount["errors"] = 1
  /\ fret = [kind |-> "fid", name |-> "errors", h |-> 3, err |-> "", opened |-> <<>>]

\* ------------------------------------------------------------------ claims, Err

\* The step is an Err call that removed the window it found, whose show write
\* failed, and with it emptied the list while autoExit was set.
ErrAutoExit == eshow' = "failed" /\ autoExit /\ windows' = 0

\* An Err call reuses the first registered window of the derived name when its
\* show write succeeds and then creates none; otherwise it calls New once, and
\* once more only after a first failure.
ErrWindow ==
  /\ eshow' = "shown"
       => /\ op'.res = FirstNamed(windows, op'.arg, nwin)
          /\ op'.res \in Members
          /\ enew' = <<>>
  /\ eshow' # "shown" /\ ~ErrAutoExit => enew' \in {<<TRUE>>, <<FALSE, TRUE>>, <<FALSE, FALSE>>}
  /\ nwin' = IF enew' # <<>> /\ enew'[Len(enew')] THEN nwin + 1 ELSE nwin
  /\ enew' # <<>> /\ enew'[Len(enew')] => op'.res = nwin + 1

\* An Err call that has its window writes $ to addr, dot=addr to ctl, the
\* message with a final newline to body, ., to addr, dot=addr and then show to
\* ctl, in this order and all to that window, a member of the registry.
ErrAppends ==
  op'.res # 0
    => /\ op'.res \in Members'
       /\ \A i \in 1..6 : ewrites'[i].win = op'.res
       /\ [i \in 1..6 |-> ewrites'[i].file] = <<"addr", "ctl", "body", "addr", "ctl", "ctl">>
       /\ ewrites'[1].bytes = <<"$">>
       /\ ewrites'[2].bytes = <<"dot=addr", "\n">>
       /\ ewrites'[3].bytes \in {<<"m", "\n">>}
       /\ ewrites'[4].bytes = <<".", ",">>
       /\ ewrites'[5].bytes = <<"dot=addr", "\n">>
       /\ ewrites'[6].bytes = <<"show", "\n">>

\* C23 as stated: Err reuses a registered window of the derived name that can
\* be shown, otherwise tries New at most twice, the second time only after a
\* failure; the process is terminated exactly when both tries fail; otherwise
\* the message is appended to the body, the appended text selected and the
\* window shown.
C23_ExitIffBothFail ==
  [][op'.kind = "Err" =>
       /\ ErrWindow
       /\ exited' <=> enew' = <<FALSE, FALSE>>
       /\ ~exited' => op'.res # 0 /\ ErrAppends]_vars

\* C23, amended: as stated, but the process is terminated exactly when both
\* tries of New fail or when the show write to the window found fails and its
\* removal from the registry empties the list while autoExit is set; in that
\* second case New is not called at all.
C23_ExitOnBothFailOrAutoExit ==
  [][op'.kind = "Err" =>
       /\ ErrWindow
       /\ exited' <=> (enew' = <<FALSE, FALSE>> \/ ErrAutoExit)
       /\ efatal' <=> enew' = <<FALSE, FALSE>>
       /\ ErrAutoExit => enew' = <<>> /\ op'.res = 0
       /\ ~exited' => op'.res # 0 /\ ErrAppends]_vars

\* C23 witness: an Err call found its window, the show write failed, and the
\* removal of that last window ended the process before any call of New.
C23_Witness ==
  /\ op.kind = "Err"
  /\ eshow = "failed"
  /\ enew = <<>>
  /\ exited
  /\ ~efatal
  /\ autoExit
  /\ windows = 0
  /\ nwin >= 1

\* ------------------------------------------------------------------ claims, registry links

\* C24 as stated: a Win has a non-nil link, prev or next, exactly when it is a
\* member of the registry.
C24_LinksIffMember ==
  \A w \in Allocated : (prev[w] # 0 \/ next[w] # 0) <=> w \in Members

\* C24, amended: with the registry operations called one at a time, a Win
\* that is not a member has both links nil; a member has a non-nil prev
\* exactly when it is not the head and a non-nil next exactly when it is not
\* the tail, so the only member of a one-window registry has both links nil.
C24_LinksOfMembers ==
  \A w \in Allocated :
    /\ w \notin Members => prev[w] = 0 /\ next[w] = 0
    /\ w \in Members => /\ prev[w] # 0 <=> w # windows
                        /\ next[w] # 0 <=> w # last

\* C24 witness: of three Wins created, two were removed; the one that stays is
\* head and tail, a member with both links nil.
C24_Witness ==
  /\ nwin = 3
  /\ Members = {2}
  /\ windows = 2
  /\ last = 2
  /\ prev[2] = 0
  /\ next[2] = 0
  /\ op.kind \in {"drop", "ShowFail"}

\* ------------------------------------------------------------------ claims, Show

\* C25: a Show call that returns a window returns a member of the registry
\* whose cached name is the name asked for and to whose ctl file show was
\* written, the first such window on the list, and changes no link; a call
\* that finds no registered window of that name returns nil; a call whose show
\* write to the first window of that name fails removes that window from the
\* registry and returns nil.
C25_ShowReturnsMember ==
  [][/\ op'.kind = "Show" /\ op'.res # 0
          => /\ op'.res \in Members
             /\ op'.res \in Members'
             /\ wname[op'.res] = op'.arg
             /\ op'.res = FirstNamed(windows, op'.arg, nwin)
             /\ lastCtl'[op'.res] = "show"
             /\ UNCHANGED <<windows, last, next, prev>>
     /\ op'.kind = "Show" /\ op'.res = 0
          => /\ \A w \in Members : wname[w] # op'.arg
             /\ UNCHANGED <<windows, last, next, prev, lastCtl>>
     /\ op'.kind = "ShowFail"
          => /\ op'.res = 0
             /\ op'.arg \in Members
             /\ op'.arg = FirstNamed(windows, wname[op'.arg], nwin)
             /\ Members' = Members \ {op'.arg}
             /\ UNCHANGED lastCtl]_vars

\* C25 witness: two registered windows had the same name; the show write to
\* the first failed, Show removed it and returned nil, and the second is
\* still a member.
C25_Witness ==
  /\ op.kind = "ShowFail"
  /\ op.res = 0
  /\ op.arg \notin Members
  /\ wname[op.arg] = "+Errors"
  /\ \E w \in Members : w > op.arg /\ wname[w] = "+Errors"

\* ------------------------------------------------------------------ claims, WriteEvent

\* The number a sequence of decimal digits stands for.
RECURSIVE DecimalValue(_)
DecimalValue(d) ==
  IF d = <<>> THEN 0
  ELSE 10 * DecimalValue(SubSeq(d, 1, Len(d) - 1))
         + (CHOOSE v \in 0..9 : <<"0", "1", "2", "3", "4", "5", "6", "7", "8", "9">>[v + 1] = d[Len(d)])

\* d is the decimal text of the natural number n: digits only, at least one,
\* no leading zero but for 0 itself.
IsDecimalOf(d, n) ==
  /\ Len(d) >= 1
  /\ \A i \in 1..Len(d) : d[i] \in {"0", "1", "2", "3", "4", "5", "6", "7", "8", "9"}
  /\ Len(d) > 1 => d[1] # "0"
  /\ DecimalValue(d) = n

\* C26: the bytes WriteEvent writes are C1, C2, Q0 in decimal, a space, Q1 in
\* decimal, a space and a newline, and nothing else: no Flag, Nr, Text, Arg or
\* Loc of the Event is in them.
C26_WriteEventBytes ==
  phase \in {"written", "looped", "readback"}
    => /\ Len(wbuf) >= 7
       /\ wbuf[1] = wev.C1
       /\ wbuf[2] = wev.C2
       /\ wbuf[Len(wbuf) - 1] = " "
       /\ wbuf[Len(wbuf)] = "\n"
       /\ \E i \in 3..(Len(wbuf) - 4) :
            /\ IsDecimalOf(SubSeq(wbuf, 3, i), wev.Q0)
            /\ wbuf[i + 1] = " "
            /\ IsDecimalOf(SubSeq(wbuf, i + 2, Len(wbuf) - 2), wev.Q1)

\* C26 witness: a chorded Event with text, argument and location was written
\* back as its two runes and "7 7 \n".
C26_Witness ==
  /\ phase = "written"
  /\ HasBit(wev.Flag, 8)
  /\ wev.Text # <<>>
  /\ wev.Arg # <<>>
  /\ wev.Loc # <<>>
  /\ wev.Q0 = 7
  /\ wev.Q1 = 7
  /\ wbuf = <<wev.C1, wev.C2, "7", " ", "7", " ", "\n">>

\* ------------------------------------------------------------------ claims, Del

\* C27: a Del call writes one command to the ctl file of its window, del when
\* sure is false and delete when sure is true, returns the result of that
\* write, and leaves the registry as it was: the window is a member after the
\* call exactly when it was before.
C27_DelWritesOneCommand ==
  [][op'.kind = "Del" =>
       /\ dwrites' = <<IF dsure' THEN "delete" ELSE "del">>
       /\ ~derr' => lastCtl' = [lastCtl EXCEPT ![op'.arg] = dwrites'[1]]
       /\ derr' => lastCtl' = lastCtl
       /\ Members' = Members
       /\ UNCHANGED <<windows, last, next, prev, nwin, wname, live, autoExit, exited>>]_vars

\* C27 witness: the one window New has made was given Del(true); delete was
\* written, the call returned no error and the window is still registered.
C27_Witness ==
  /\ nwin = 1
  /\ Members = {1}
  /\ op.kind = "Del"
  /\ op.arg = 1
  /\ dsure
  /\ ~derr
  /\ dwrites = <<"delete">>
  /\ lastCtl[1] = "delete"

\* ------------------------------------------------------------------ claims, registry list

\* The list is well formed: head and tail are nil together, the head has no
\* prev and the tail no next, next and prev undo each other, and following
\* next from the head ends at the tail without meeting a Win twice.
WellFormedList ==
  /\ windows = 0 <=> last = 0
  /\ windows # 0 => prev[windows] = 0 /\ next[last] = 0
  /\ \A w \in Allocated :
       /\ next[w] # 0 => prev[next[w]] = w
       /\ prev[w] # 0 => next[prev[w]] = w
  /\ \A l \in {RegistryList} :
       /\ \A i, j \in 1..Len(l) : i # j => l[i] # l[j]
       /\ windows # 0 => l[Len(l)] = last

\* C28: with Open, New and the removals run one at a time, the registry is a
\* well-formed doubly linked list whose Wins are exactly those created and not
\* yet removed, in the order of their creation with the newest at the tail;
\* and a Win that is not a member, once created, is never a member again.
C28_WellFormedRegistry ==
  /\ [](/\ WellFormedList
        /\ Members = live
        /\ \A l \in {RegistryList} : \A i, j \in 1..Len(l) : i < j => l[i] < l[j])
  /\ [][\A before \in {Members}, after \in {Members'} :
          \A w \in Allocated : w \notin before => w \notin after]_vars

\* C28 witness: of three Wins created the second was removed; the list is the
\* first and the third, in this order.
C28_Witness ==
  /\ nwin = 3
  /\ RegistryList = <<1, 3>>
  /\ windows = 1
  /\ last = 3
  /\ live = {1, 3}
  /\ op.kind \in {"drop", "ShowFail"}
  /\ op.arg = 2

\* ------------------------------------------------------------------ claims, stream framing

\* The record of recs at which the k-th logical event starts: each event takes
\* its primary record, one more with the primary's expansion bit, two more
\* with its chorded bit.
RECURSIVE EventStart(_)
EventStart(k) ==
  IF k = 1 THEN 1
  ELSE LET s == EventStart(k - 1) IN
       IF s > Len(recs) THEN s ELSE s + Wanted(s)

\* The records the last ReadEvent call should have taken, by the flag of the
\* primary record and the flag of the Event returned.
Consumed ==
  1 + (IF HasBit(recs[start].Flag, 2) THEN 1 ELSE 0) + (IF HasBit(res.e.Flag, 8) THEN 2 ELSE 0)

\* C29: the k-th call of ReadEvent starts at the record where the k-th
\* logical event starts; a call that succeeds takes one record, one more when
\* the primary's expansion bit is set, two more when the chorded bit of the
\* Event returned is set, and leaves the event file at the record behind
\* them; a second record read for a primary whose selection is not empty is
\* dropped, the Event having the primary's fields.
C29_RecordFraming ==
  (ReadFromHost /\ ~res.isnil)
    => /\ start = EventStart(nreads)
       /\ res.nrec = Consumed
       /\ start + Consumed - 1 <= Len(recs)
       /\ ebuf = EncodeAll(SubSeq(recs, start + Consumed, Len(recs)))
       /\ (HasBit(recs[start].Flag, 2) /\ recs[start].Q0 # recs[start].Q1)
            => /\ res.e.C1 = recs[start].C1
               /\ res.e.C2 = recs[start].C2
               /\ res.e.Q0 = recs[start].Q0
               /\ res.e.Q1 = recs[start].Q1
               /\ res.e.OrigQ0 = recs[start].Q0
               /\ res.e.OrigQ1 = recs[start].Q1
               /\ res.e.Flag = recs[start].Flag
               /\ res.e.Nr = recs[start].Nr
               /\ res.e.Text = recs[start].Text

\* C29 witness: the first call took a primary with a selection from 0 to 7
\* and the expansion bit together with its second record, and the second
\* call has returned the third record as the second event.
C29_Witness ==
  /\ ReadFromHost
  /\ ~res.isnil
  /\ nreads = 2
  /\ start = 3
  /\ Len(recs) = 4
  /\ HasBit(recs[1].Flag, 2)
  /\ ~HasBit(recs[1].Flag, 8)
  /\ recs[1].Q0 = 0
  /\ recs[1].Q1 = 7
  /\ res.e.Text = recs[3].Text
  /\ ebuf = EncodeRecord(recs[4])

\* ------------------------------------------------------------------ claims, exit at the end of an event stream

\* C30: when the drop that eventReader makes at the end of a window's event
\* stream ends the process, the consumer has received every Event decoded for
\* that window, in order, and after them the empty Event.
C30_ExitAfterSentinel ==
  [][(exited' /\ ~exited /\ op'.kind = "drop")
       => /\ rpc[op'.arg] = "drop"
          /\ received[op'.arg] = Append(decoded[op'.arg], 0)
          /\ held[op'.arg] = 0]_vars

\* C30 witness: the process has exited on the drop of a window's reader after
\* the consumer received the MaxEvents events decoded and the empty Event.
C30_Witness ==
  /\ exited
  /\ op.kind = "drop"
  /\ Len(decoded[op.arg]) = MaxEvents
  /\ received[op.arg] = Append(decoded[op.arg], 0)
  /\ rlog[op.arg] = <<"sentinel", "drop">>

\* ------------------------------------------------------------------ claims, teardown

\* The task of w is blocked in a send on w.c.
BlockedSending(w) == rpc[w] \in {"send", "sentinel"}

\* A consumer that does not receive leaves a blocked task where it is, and no
\* drop of the task removes its window.
BlockedWithoutReceive ==
  [][\A w \in EvWins :
       (BlockedSending(w) /\ received'[w] = received[w])
         => /\ rpc'[w] = rpc[w]
            /\ ~(op'.kind = "drop" /\ op'.arg = w /\ op' # op)]_vars

\* C31 as stated: with a consumer that keeps receiving, a window whose event
\* stream has failed is at last out of the registry with its channel closed;
\* and with no receive by the consumer the task stays blocked in its send and
\* does not remove the window.
C31_TeardownCompletes ==
  /\ \A w \in EvWins : (rpc[w] = "sentinel") ~> (w \notin Members /\ closed[w])
  /\ BlockedWithoutReceive

\* C31, amended: with a consumer that keeps receiving, a window whose event
\* stream has failed is at last out of the registry with its channel closed,
\* unless the process has exited before: the drop of the task, or another
\* removal, ends the process when autoExit is set and the registry is empty,
\* and then close(w.c) is never reached. With no receive by the consumer the
\* task stays blocked in its send and does not remove the window.
C31_TeardownCompletesOrExit ==
  /\ \A w \in EvWins : (rpc[w] = "sentinel") ~> (exited \/ (w \notin Members /\ closed[w]))
  /\ BlockedWithoutReceive

\* C31 witness: a stream failed after an event was delivered, the consumer
\* received the empty Event, and the window is out of the registry with its
\* channel closed, the process still running.
C31_Witness ==
  \E w \in EvWins :
    /\ ~exited
    /\ Len(decoded[w]) >= 1
    /\ received[w] = Append(decoded[w], 0)
    /\ rlog[w] = <<"sentinel", "drop", "close">>
    /\ w \in Allocated
    /\ w \notin Members
    /\ closed[w]

\* The numbers of the Events the switch of EventLoop has been through.
SeenNumbers == [i \in 1..Len(lseen) |-> lseen[i][1]]

\* The switch is gone through for an Event whose C2 is none of x, X, l, L.
OtherEventDone ==
  /\ lpc = "body"
  /\ lpc' = "range"
  /\ lev.C2 \notin {"x", "X", "l", "L"}

\* C32: EventLoop calls neither Execute, Look nor an Exec method and writes
\* nothing to the event file for an Event whose C2 is none of x, X, l, L, the
\* empty Event sent at the end of the stream included; the Events it has been
\* through are those received from the channel, in the order of their
\* delivery, at most one of them being received and not yet gone through; it
\* returns only after the channel is closed and every Event delivered has been
\* gone through, and once the channel is closed it does return.
C32_EventLoopRange ==
  /\ [][OtherEventDone => (calls' = <<>> /\ lwrote' = <<>>)]_vars
  /\ [](lwin # 0 =>
          /\ SeenNumbers = SubSeq(received[lwin], 1, Len(lseen))
          /\ Len(received[lwin]) - Len(lseen) = (IF lpc = "body" THEN 1 ELSE 0)
          /\ received[lwin] = SubSeq(Append(decoded[lwin], 0), 1, Len(received[lwin])))
  /\ [](lpc = "returned" =>
          /\ closed[lwin]
          /\ SeenNumbers = Append(decoded[lwin], 0))
  /\ (lwin # 0 /\ closed[lwin]) ~> (lpc = "returned")

\* EventLoop has returned after an execute event, an event of another kind
\* and the empty Event, in that order, the channel being closed.
C32_Witness ==
  /\ lpc = "returned"
  /\ ~exited
  /\ closed[lwin]
  /\ lseen = <<<<1, "x">>, <<2, "i">>, <<0, "">>>>
  /\ calls = <<>>
  /\ lwrote = <<>>
\* The writes the goroutine of Blink has made for ticks: all but the clean it
\* writes after taking stop's send.
TickWrites ==
  SubSeq(bwrites, 1, Len(bwrites) - (IF bpc \in {"ack", "done"} THEN 1 ELSE 0))

\* C33: the first call of stop returns in the end; once a call of stop has
\* returned the goroutine of Blink has ended and writes nothing more; the
\* writes it makes for ticks are dirty, clean, dirty, ... in turn, dirty first;
\* a call of stop made after one has returned stays at its send for ever.
C33_StopHandshake ==
  /\ (spc = "send" /\ ~stopped) ~> (spc = "returned")
  /\ [](stopped => bpc = "done")
  /\ [][stopped => bwrites' = bwrites]_vars
  /\ [](\A i \in 1..Len(TickWrites) :
          TickWrites[i] = (IF i % 2 = 1 THEN "dirty" ELSE "clean"))
  /\ [][(stopped /\ spc = "send") => spc' = "send"]_vars

\* C33 witness: after three ticks written dirty, clean, dirty the first stop
\* has returned behind its clean, and a second call of stop is at its send.
C33_Witness ==
  /\ stopped
  /\ bpc = "done"
  /\ spc = "send"
  /\ bwrites = <<"dirty", "clean", "dirty", "clean">>
====
